---- MODULE Spec2Model ----
(***************************************************************************)
(* Model of tools/convert_jsonl_to_c.py, the trace-to-test compiler:       *)
(* JSON Lines traces -> TestCase list -> string pool -> generated C file.  *)
(*                                                                         *)
(* Text (Python str) is a sequence of code points, bytes are a sequence of *)
(* integers 0..255.  The pure functions of the source are operators with   *)
(* the source's names; six specifications exercise them:                   *)
(*   SpecClamp    clamp_utf8_bytes / sha256_hex_utf8 on bounded texts      *)
(*   SpecPool     StringPool.intern and the pool literal of emit_c         *)
(*   SpecEscape   c_escape_bytes and the bytes a C compiler reads back     *)
(*   SpecToolEnv  parse_overrides / tool_env_for                           *)
(*   Spec         main: argument checks, extract_tests, emit_c             *)
(*   SpecRunner   main() of the generated C file over the written table    *)
(***************************************************************************)
EXTENDS Integers, Sequences, FiniteSets, TLC

VARIABLES
    \* --- clamp_utf8_bytes(s, max_bytes) applied once and then again
    s, max_bytes, clamped, reclamped, cpc,
    \* --- a StringPool (_buf, _index), the intern calls made on it and the
    \*     pool literal emit_c derives from it
    buf, index, ncalls, arg, ret, max_chunk, pool_lit, ppc,
    \* --- a byte string, the literal c_escape_bytes makes of it and the
    \*     bytes a C compiler makes of the literal
    esc_data, literal, compiled, epc,
    \* --- the --tool-env items, the table parse_overrides makes of them and
    \*     one tool_env_for(tool0, overrides) call
    tool_items, overrides, tool0, tool_env, tpc,
    \* --- one run of main(): the parsed arguments ns, the input paths, the
    \*     position of extract_tests, the TestCase list, emit_c's pool,
    \*     table and planned writes, the output file, the exit status
    ns, inputs, pc, fidx, lineno, nread, cur, tests, origins, env_overrides,
    pool, packed, pieces, out_file, out_file0, exit_code, err,
    \* --- the count in the closing message "wrote <path> with <n> tests"
    wrote,
    \* --- one run of the generated C program: the bytes of test_strpool,
    \*     the locals of its main() and of the loop body, the position in
    \*     main (rpc), the calls made into common.h and the exit status
    test_strpool, fixture_root, case_i, passed, failed, getenv_ret, bin_path,
    cmd_line, got_out, got_err, got_rc, ok, out_match, err_match, calls, rpc,
    runner_exit

varsClamp == <<s, max_bytes, clamped, reclamped, cpc>>

varsPool == <<buf, index, ncalls, arg, ret, max_chunk, pool_lit, ppc>>

varsEscape == <<esc_data, literal, compiled, epc>>

varsTool == <<tool_items, overrides, tool0, tool_env, tpc>>

varsRun == <<ns, inputs, pc, fidx, lineno, nread, cur, tests, origins,
             env_overrides, pool, packed, pieces, out_file, out_file0,
             exit_code, err, wrote>>

varsRunner == <<test_strpool, fixture_root, case_i, passed, failed, getenv_ret,
                bin_path,
                cmd_line, got_out, got_err, got_rc, ok, out_match, err_match,
                calls, rpc, runner_exit>>

vars == <<s, max_bytes, clamped, reclamped, cpc,
          buf, index, ncalls, arg, ret, max_chunk, pool_lit, ppc,
          esc_data, literal, compiled, epc,
          tool_items, overrides, tool0, tool_env, tpc,
          ns, inputs, pc, fidx, lineno, nread, cur, tests, origins,
          env_overrides, pool, packed, pieces, out_file, out_file0,
          exit_code, err, wrote,
          test_strpool, fixture_root, case_i, passed, failed, getenv_ret,
          bin_path, cmd_line, got_out, got_err, got_rc, ok, out_match, err_match,
          calls, rpc, runner_exit>>

(***************************************************************************)
(* Bounds of the model                                                     *)
(***************************************************************************)
MaxTextLen == 3
MaxBudget == 5
MaxInternCalls == 3
MaxChunk == 4
MaxOverrides == 2
MaxFiles == 2
MaxLines == 2
MaxRunnerLines == 1
MaxEscapeLen == 2

(***************************************************************************)
(* Sequence helpers                                                        *)
(***************************************************************************)
RECURSIVE Flatten(_)
Flatten(ss) ==
    IF Len(ss) = 0 THEN <<>>
    ELSE IF Len(ss) = 1 THEN ss[1]
    ELSE LET half == Len(ss) \div 2
         IN Flatten(SubSeq(ss, 1, half)) \o Flatten(SubSeq(ss, half + 1, Len(ss)))

Take(q, n) == SubSeq(q, 1, IF n < Len(q) THEN n ELSE Len(q))

Drop(q, n) == SubSeq(q, n + 1, Len(q))

SeqsUpTo(S, n) == UNION {[1..k -> S] : k \in 0..n}

(***************************************************************************)
(* str.encode("utf-8", errors="replace"): a lone surrogate cannot be       *)
(* encoded and is replaced by "?".                                         *)
(***************************************************************************)
Utf8EncodeChar(cp) ==
    IF cp >= 55296 /\ cp <= 57343 THEN <<63>>
    ELSE IF cp < 128 THEN <<cp>>
    ELSE IF cp < 2048 THEN <<192 + (cp \div 64), 128 + (cp % 64)>>
    ELSE IF cp < 65536 THEN
        <<224 + (cp \div 4096), 128 + ((cp \div 64) % 64), 128 + (cp % 64)>>
    ELSE <<240 + (cp \div 262144), 128 + ((cp \div 4096) % 64),
           128 + ((cp \div 64) % 64), 128 + (cp % 64)>>

Utf8Encode(text) == Flatten([i \in 1..Len(text) |-> Utf8EncodeChar(text[i])])

(***************************************************************************)
(* bytes.decode("utf-8", errors="replace"): every maximal ill-formed       *)
(* subpart (a stray byte, or a lead byte with the continuation bytes that  *)
(* validly follow it) becomes one U+FFFD.                                  *)
(***************************************************************************)
REPLACEMENT_CHAR == 65533

IsCont(b) == b >= 128 /\ b <= 191

\* number of continuation bytes the lead byte b announces, -1 for a byte
\* that cannot start a sequence
Utf8Need(b) ==
    IF b < 128 THEN 0
    ELSE IF b >= 194 /\ b <= 223 THEN 1
    ELSE IF b >= 224 /\ b <= 239 THEN 2
    ELSE IF b >= 240 /\ b <= 244 THEN 3
    ELSE -1

\* the second byte of a sequence has a narrower range after E0, ED, F0, F4
Utf8SecondOk(lead, b) ==
    IF lead = 224 THEN b >= 160 /\ b <= 191
    ELSE IF lead = 237 THEN b >= 128 /\ b <= 159
    ELSE IF lead = 240 THEN b >= 144 /\ b <= 191
    ELSE IF lead = 244 THEN b >= 128 /\ b <= 143
    ELSE IsCont(b)

\* how many continuation bytes validly follow the lead byte at position i
RECURSIVE Utf8Valid(_, _, _, _)
Utf8Valid(raw, i, k, need) ==
    IF k > need \/ i + k > Len(raw) THEN k - 1
    ELSE IF (IF k = 1 THEN Utf8SecondOk(raw[i], raw[i + 1]) ELSE IsCont(raw[i + k]))
         THEN Utf8Valid(raw, i, k + 1, need)
         ELSE k - 1

Utf8Value(raw, i, need) ==
    IF need = 0 THEN raw[i]
    ELSE IF need = 1 THEN (raw[i] - 192) * 64 + (raw[i + 1] - 128)
    ELSE IF need = 2 THEN
        (raw[i] - 224) * 4096 + (raw[i + 1] - 128) * 64 + (raw[i + 2] - 128)
    ELSE (raw[i] - 240) * 262144 + (raw[i + 1] - 128) * 4096
         + (raw[i + 2] - 128) * 64 + (raw[i + 3] - 128)

RECURSIVE Utf8DecodeFrom(_, _)
Utf8DecodeFrom(raw, i) ==
    IF i > Len(raw) THEN <<>>
    ELSE LET need == Utf8Need(raw[i])
             got == IF need < 0 THEN 0 ELSE Utf8Valid(raw, i, 1, need)
         IN IF need >= 0 /\ got = need
            THEN <<Utf8Value(raw, i, need)>> \o Utf8DecodeFrom(raw, i + need + 1)
            ELSE <<REPLACEMENT_CHAR>> \o Utf8DecodeFrom(raw, i + got + 1)

Utf8Decode(raw) == Utf8DecodeFrom(raw, 1)

(***************************************************************************)
(* sha256_hex_utf8.  hashlib.sha256 is modelled as an ideal hash: a        *)
(* deterministic, collision-free map from byte strings to non-empty        *)
(* lowercase hexadecimal text (two digits for the length, then two digits  *)
(* per byte).  The 64-digit width of the real digest is not modelled.      *)
(***************************************************************************)
HexDigit(n) == IF n < 10 THEN 48 + n ELSE 87 + n

HexByte(b) == <<HexDigit((b \div 16) % 16), HexDigit(b % 16)>>

hexdigest(raw) ==
    HexByte(Len(raw)) \o Flatten([i \in 1..Len(raw) |-> HexByte(raw[i])])

sha256_hex_utf8(text) == hexdigest(Utf8Encode(text))

(***************************************************************************)
(* clamp_utf8_bytes(s, max_bytes) -> (text, truncated)                     *)
(***************************************************************************)
clamp_slice_tail(raw, n) == Drop(raw, n)

clamp_slice(raw, n) == Take(raw, n)

\* variant: the flag reports whether the returned text differs from the input
clamp_utf8_bytes_flag_on_change(text, budget) ==
    LET raw == Utf8Encode(text)
        cut == IF Len(raw) <= budget THEN text ELSE Utf8Decode(clamp_slice(raw, budget))
    IN <<cut, IF cut = text THEN 0 ELSE 1>>

clamp_utf8_bytes(text, budget) ==
    LET raw == Utf8Encode(text)
    IN IF Len(raw) <= budget THEN <<text, 0>>
       ELSE <<Utf8Decode(clamp_slice(raw, budget)), 1>>

(***************************************************************************)
(* c_escape_bytes(data): the quoted C string literal for a byte string     *)
(***************************************************************************)
QUOTE == 34

BACKSLASH == 92

NEWLINE == 10

\* variant: an octal escape has as many digits as the value needs
c_escape_byte_short_octal(b) ==
    IF b = 92 THEN <<92, 92>>
    ELSE IF b = 34 THEN <<92, 34>>
    ELSE IF b = 10 THEN <<92, 110>>
    ELSE IF b = 13 THEN <<92, 114>>
    ELSE IF b = 9 THEN <<92, 116>>
    ELSE IF b >= 32 /\ b <= 126 THEN <<b>>
    ELSE IF b < 8 THEN <<92, 48 + b>>
    ELSE IF b < 64 THEN <<92, 48 + (b \div 8), 48 + (b % 8)>>
    ELSE <<92, 48 + (b \div 64), 48 + ((b \div 8) % 8), 48 + (b % 8)>>

c_escape_byte(b) ==
    IF b = 92 THEN <<92, 92>>
    ELSE IF b = 34 THEN <<92, 34>>
    ELSE IF b = 10 THEN <<92, 110>>
    ELSE IF b = 13 THEN <<92, 114>>
    ELSE IF b = 9 THEN <<92, 116>>
    ELSE IF b >= 32 /\ b <= 126 THEN <<b>>
    ELSE <<92, 48 + (b \div 64), 48 + ((b \div 8) % 8), 48 + (b % 8)>>

c_escape_bytes(data) ==
    <<QUOTE>> \o Flatten([i \in 1..Len(data) |-> c_escape_byte(data[i])]) \o <<QUOTE>>

(***************************************************************************)
(* split_c_literal(lit, max_chunk): the literal itself when its inner text *)
(* fits, else consecutive max_chunk-character slices of the inner text,    *)
(* each quoted, joined by newlines.                                        *)
(***************************************************************************)
DEFAULT_MAX_CHUNK == 1400

ValueError == <<-1>>

RECURSIVE split_parts(_, _, _)
split_parts(inner, i, chunk) ==
    IF i >= Len(inner) THEN <<>>
    ELSE <<<<QUOTE>> \o SubSeq(inner, i + 1, IF i + chunk < Len(inner) THEN i + chunk ELSE Len(inner))
           \o <<QUOTE>>>>
         \o split_parts(inner, i + chunk, chunk)

RECURSIVE JoinLines(_)
JoinLines(parts) ==
    IF Len(parts) = 0 THEN <<>>
    ELSE IF Len(parts) = 1 THEN parts[1]
    ELSE parts[1] \o <<NEWLINE>> \o JoinLines(Tail(parts))

split_c_literal(lit, chunk) ==
    IF ~(Len(lit) >= 1 /\ lit[1] = QUOTE /\ lit[Len(lit)] = QUOTE) THEN ValueError
    ELSE LET inner == SubSeq(lit, 2, Len(lit) - 1)
         IN IF Len(inner) <= chunk THEN lit
            ELSE JoinLines(split_parts(inner, 0, chunk))

(***************************************************************************)
(* StringPool.intern.  A pool is [buf, index]; the result carries the pool *)
(* after the call and the returned (offset, length) pair.                  *)
(***************************************************************************)
NewPool == [buf |-> <<>>, index |-> [b \in {} |-> <<0, 0>>]]

intern_always_append(pl, text) ==
    LET b == Utf8Encode(text)
        meta == <<Len(pl.buf), Len(b)>>
    IN [buf |-> pl.buf \o b \o <<0>>,
        index |-> (b :> meta) @@ pl.index,
        meta |-> meta]

\* variant: the terminating NUL is left out
intern_no_terminator(pl, text) ==
    LET b == Utf8Encode(text)
    IN IF b \in DOMAIN pl.index
       THEN [buf |-> pl.buf, index |-> pl.index, meta |-> pl.index[b]]
       ELSE LET off == Len(pl.buf)
                meta == <<off, Len(b)>>
            IN [buf |-> pl.buf \o b,
                index |-> (b :> meta) @@ pl.index,
                meta |-> meta]

intern(pl, text) ==
    LET b == Utf8Encode(text)
    IN IF b \in DOMAIN pl.index
       THEN [buf |-> pl.buf, index |-> pl.index, meta |-> pl.index[b]]
       ELSE LET off == Len(pl.buf)
                meta == <<off, Len(b)>>
            IN [buf |-> pl.buf \o b \o <<0>>,
                index |-> (b :> meta) @@ pl.index,
                meta |-> meta]

(***************************************************************************)
(* Text helpers: str.lower (ASCII letters; the model's tool names are      *)
(* ASCII), str.strip, the "in" substring test, str.split("=", 1)           *)
(***************************************************************************)
LowerChar(c) == IF c >= 65 /\ c <= 90 THEN c + 32 ELSE c

Lower(text) == [i \in 1..Len(text) |-> LowerChar(text[i])]

IsSpace(c) == c \in {32, 9, 10, 11, 12, 13}

RECURSIVE LStrip(_)
LStrip(text) ==
    IF text # <<>> /\ IsSpace(Head(text)) THEN LStrip(Tail(text)) ELSE text

RECURSIVE RStrip(_)
RStrip(text) ==
    IF text # <<>> /\ IsSpace(text[Len(text)])
    THEN RStrip(SubSeq(text, 1, Len(text) - 1)) ELSE text

Strip(text) == RStrip(LStrip(text))

Contains(text, sub) ==
    \E i \in 0..(Len(text) - Len(sub)) : SubSeq(text, i + 1, i + Len(sub)) = sub

\* position of the first occurrence of character c, 0 when there is none
IndexOf(text, c) ==
    IF \E i \in 1..Len(text) : text[i] = c
    THEN CHOOSE i \in 1..Len(text) : text[i] = c /\ \A j \in 1..(i - 1) : text[j] # c
    ELSE 0

(***************************************************************************)
(* Path(tool0).name of a POSIX path: the last component, where empty and   *)
(* "." components do not count ("zip/" and "zip/." both name "zip").       *)
(***************************************************************************)
SLASH == 47

RECURSIVE PathParts(_, _, _)
PathParts(text, i, part) ==
    LET keep == IF part = <<>> \/ part = <<46>> THEN <<>> ELSE <<part>>
    IN IF i > Len(text) THEN keep
       ELSE IF text[i] = SLASH THEN keep \o PathParts(text, i + 1, <<>>)
       ELSE PathParts(text, i + 1, Append(part, text[i]))

PathName(text) ==
    LET parts == PathParts(text, 1, <<>>)
    IN IF parts = <<>> THEN <<>> ELSE parts[Len(parts)]

(***************************************************************************)
(* tool_env_for(tool0, overrides)                                          *)
(***************************************************************************)
STR_zipinfo == <<122, 105, 112, 105, 110, 102, 111>>

STR_unzip == <<117, 110, 122, 105, 112>>

STR_zip == <<122, 105, 112>>

ZIPINFO_BIN == <<90, 73, 80, 73, 78, 70, 79, 95, 66, 73, 78>>

UNZIP_BIN == <<85, 78, 90, 73, 80, 95, 66, 73, 78>>

ZIP_BIN == <<90, 73, 80, 95, 66, 73, 78>>

TOOL_BIN == <<84, 79, 79, 76, 95, 66, 73, 78>>

tool_env_for_zip_first(name0, ov) ==
    LET base == Lower(PathName(name0))
    IN IF base \in DOMAIN ov THEN ov[base]
       ELSE IF Contains(base, STR_zip) THEN ZIP_BIN
       ELSE IF Contains(base, STR_zipinfo) THEN ZIPINFO_BIN
       ELSE IF Contains(base, STR_unzip) THEN UNZIP_BIN
       ELSE TOOL_BIN

tool_env_for(name0, ov) ==
    LET base == Lower(PathName(name0))
    IN IF base \in DOMAIN ov THEN ov[base]
       ELSE IF Contains(base, STR_zipinfo) THEN ZIPINFO_BIN
       ELSE IF Contains(base, STR_unzip) THEN UNZIP_BIN
       ELSE IF Contains(base, STR_zip) THEN ZIP_BIN
       ELSE TOOL_BIN

(***************************************************************************)
(* parse_overrides(items): [err, table]; err is the ValueError case        *)
(***************************************************************************)
EQUALS == 61

NoOverrides == [k \in {} |-> <<>>]

RECURSIVE parse_overrides_from(_, _, _)
parse_overrides_from(items, i, out) ==
    IF i > Len(items) THEN [err |-> FALSE, table |-> out]
    ELSE LET it == items[i]
             eq == IndexOf(it, EQUALS)
             k == Lower(Strip(SubSeq(it, 1, eq - 1)))
             v == Strip(SubSeq(it, eq + 1, Len(it)))
         IN IF eq = 0 THEN [err |-> TRUE, table |-> NoOverrides]
            ELSE IF k = <<>> \/ v = <<>> THEN [err |-> TRUE, table |-> NoOverrides]
            ELSE parse_overrides_from(items, i + 1,
                     [x \in DOMAIN out \cup {k} |-> IF x = k THEN v ELSE out[x]])

\* variant: every item is let through and ignored
parse_overrides_unchecked(items) == [err |-> FALSE, table |-> NoOverrides]

parse_overrides(items) == parse_overrides_from(items, 1, NoOverrides)

(***************************************************************************)
(* JSON values as json.loads delivers them: t is the Python type, s the    *)
(* text of a str, n the value of an int (bool is a subclass of int).       *)
(***************************************************************************)
JAbsent == [t |-> "absent", s |-> <<>>, n |-> 0]

JNull == [t |-> "NoneType", s |-> <<>>, n |-> 0]

JStr(text) == [t |-> "str", s |-> text, n |-> 0]

JInt(k) == [t |-> "int", s |-> <<>>, n |-> k]

JTrue == [t |-> "bool", s |-> <<>>, n |-> 1]

JFloat == [t |-> "float", s |-> <<>>, n |-> 0]

isinstance_str(v) == v.t = "str"

isinstance_int_any(v) == TRUE

isinstance_int(v) == v.t \in {"int", "bool"}

\* a JSON array, or what stands in its place (t # "list")
JList(items) == [t |-> "list", items |-> items]

JNotList(ty) == [t |-> ty, items |-> <<>>]

\* one element of "commands": a JSON object with the four keys, or not one
JCmd(argv, rc, out, errtext) ==
    [t |-> "dict", argv |-> argv, returncode |-> rc, stdout |-> out, stderr |-> errtext]

JNotCmd == [t |-> "str", argv |-> JNotList("absent"), returncode |-> JAbsent,
            stdout |-> JAbsent, stderr |-> JAbsent]

\* one input line: blank, not JSON, JSON but no object, an object, or text
\* json.loads gives up on ("overdeep": brackets nested beyond the
\* interpreter's recursion limit, or an integer literal of more digits than
\* the int conversion limit)
JLine(ty, name, commands) == [t |-> ty, name |-> name, commands |-> commands]

(***************************************************************************)
(* json_loads_relaxed(line): the object, or None for a blank line, a line  *)
(* json.loads rejects and a JSON value that is no dict                     *)
(***************************************************************************)
None == JLine("None", JAbsent, JNotList("absent"))

\* json.loads(s) raises RecursionError or a plain ValueError, which the
\* except clause (JSONDecodeError only) lets through
json_loads_raises(line) == line.t = "overdeep"

json_loads_relaxed(line) ==
    IF line.t = "blank" THEN None
    ELSE IF line.t = "badjson" THEN None
    ELSE IF line.t # "object" THEN None
    ELSE line

(***************************************************************************)
(* shlex.quote and argv_to_args                                            *)
(***************************************************************************)
\* [A-Za-z0-9_@%+=:,./-], the characters shlex leaves unquoted
ShlexSafe(c) ==
    \/ c >= 48 /\ c <= 57
    \/ c >= 65 /\ c <= 90
    \/ c >= 97 /\ c <= 122
    \/ c \in {95, 64, 37, 43, 61, 58, 44, 46, 47, 45}

APOSTROPHE == 39

shlex_quote(text) ==
    IF text = <<>> THEN <<APOSTROPHE, APOSTROPHE>>
    ELSE IF \A i \in 1..Len(text) : ShlexSafe(text[i]) THEN text
    ELSE <<APOSTROPHE>>
         \o Flatten([i \in 1..Len(text) |->
                IF text[i] = APOSTROPHE THEN <<39, 34, 39, 34, 39>> ELSE <<text[i]>>])
         \o <<APOSTROPHE>>

RECURSIVE JoinSpace(_)
JoinSpace(parts) ==
    IF Len(parts) = 0 THEN <<>>
    ELSE IF Len(parts) = 1 THEN parts[1]
    ELSE parts[1] \o <<32>> \o JoinSpace(Tail(parts))

\* variant: the program name is quoted and joined like an argument
argv_to_args_with_program(argv) ==
    JoinSpace([i \in 1..Len(argv) |-> shlex_quote(argv[i])])

argv_to_args(argv) ==
    IF Len(argv) <= 1 THEN <<>>
    ELSE JoinSpace([i \in 1..(Len(argv) - 1) |-> shlex_quote(argv[i + 1])])

(***************************************************************************)
(* extract_tests, one command: the TestCase built from a command that      *)
(* passed validation (source lines 235-262)                                *)
(***************************************************************************)
RECURSIVE Decimal(_)
Decimal(k) == IF k < 10 THEN <<48 + k>> ELSE Decimal(k \div 10) \o <<48 + (k % 10)>>

STR_unknown == <<117, 110, 107, 110, 111, 119, 110>>

STR_cmd == <<95, 99, 109, 100>>

TextOr(v) == IF isinstance_str(v) THEN v.s ELSE <<>>

make_test_hash_raw(cmd, i, base_name, name_prefix, max_output_bytes, ov) ==
    LET argv == [k \in 1..Len(cmd.argv.items) |-> cmd.argv.items[k].s]
        stdout_c == clamp_utf8_bytes(TextOr(cmd.stdout), max_output_bytes)
        stderr_c == clamp_utf8_bytes(TextOr(cmd.stderr), max_output_bytes)
    IN [name |-> name_prefix \o base_name \o STR_cmd \o Decimal(i),
        tool_env |-> tool_env_for(argv[1], ov),
        args |-> argv_to_args(argv),
        expected_rc |-> cmd.returncode,
        expected_stdout |-> stdout_c[1],
        expected_stderr |-> stderr_c[1],
        stdout_sha256 |-> sha256_hex_utf8(TextOr(cmd.stdout)),
        stderr_sha256 |-> sha256_hex_utf8(TextOr(cmd.stderr)),
        stdout_truncated |-> stdout_c[2],
        stderr_truncated |-> stderr_c[2]]

make_test(cmd, i, base_name, name_prefix, max_output_bytes, ov) ==
    LET argv == [k \in 1..Len(cmd.argv.items) |-> cmd.argv.items[k].s]
        stdout_c == clamp_utf8_bytes(TextOr(cmd.stdout), max_output_bytes)
        stderr_c == clamp_utf8_bytes(TextOr(cmd.stderr), max_output_bytes)
    IN [name |-> name_prefix \o base_name \o STR_cmd \o Decimal(i),
        tool_env |-> tool_env_for(argv[1], ov),
        args |-> argv_to_args(argv),
        expected_rc |-> cmd.returncode,
        expected_stdout |-> stdout_c[1],
        expected_stderr |-> stderr_c[1],
        stdout_sha256 |-> sha256_hex_utf8(stdout_c[1]),
        stderr_sha256 |-> sha256_hex_utf8(stderr_c[1]),
        stdout_truncated |-> stdout_c[2],
        stderr_truncated |-> stderr_c[2]]

(***************************************************************************)
(* extract_tests, one line (the body of the loop over the lines of a       *)
(* file, source lines 203-262).  The result has the TestCases appended,    *)
(* the command index of each, and the ValueError raised, if any.           *)
(***************************************************************************)
NoError == [kind |-> "none", path |-> 0, lineno |-> 0, msg |-> "", index |-> -1]

ValueErrorAt(path, line_no, msg, i) ==
    [kind |-> "ValueError", path |-> path, lineno |-> line_no, msg |-> msg, index |-> i]

argv_ok(argv) ==
    /\ argv.t = "list"
    /\ \A k \in 1..Len(argv.items) : isinstance_str(argv.items[k])
    /\ Len(argv.items) > 0

\* variant: a case is numbered by the count of cases its record has so far
RECURSIVE extract_commands_count_accepted(_, _, _, _)
extract_commands_count_accepted(cmds, i, c, acc) ==
    IF i >= Len(cmds) THEN acc
    ELSE LET cmd == cmds[i + 1]
             skip == extract_commands_count_accepted(cmds, i + 1, c, acc)
             raise(msg) == [acc EXCEPT !.err = ValueErrorAt(c.path, c.lineno, msg, i)]
         IN IF cmd.t # "dict" THEN
                IF c.strict THEN raise("is not an object") ELSE skip
            ELSE IF ~argv_ok(cmd.argv) THEN
                IF c.strict THEN raise("missing argv") ELSE skip
            ELSE IF ~isinstance_int(cmd.returncode) THEN
                IF c.strict THEN raise("missing returncode") ELSE skip
            ELSE extract_commands_count_accepted(cmds, i + 1, c,
                    [acc EXCEPT
                        !.tests = Append(@, make_test(cmd, Len(acc.tests), c.base_name,
                                                      c.name_prefix, c.max_output_bytes,
                                                      c.env_overrides)),
                        !.idx = Append(@, i)])

\* variant: an invalid element ends the record, also in lenient mode
RECURSIVE extract_commands_stop_at_invalid(_, _, _, _)
extract_commands_stop_at_invalid(cmds, i, c, acc) ==
    IF i >= Len(cmds) THEN acc
    ELSE LET cmd == cmds[i + 1]
             raise(msg) == [acc EXCEPT !.err = ValueErrorAt(c.path, c.lineno, msg, i)]
         IN IF cmd.t # "dict" THEN
                IF c.strict THEN raise("is not an object") ELSE acc
            ELSE IF ~argv_ok(cmd.argv) THEN
                IF c.strict THEN raise("missing argv") ELSE acc
            ELSE IF ~isinstance_int(cmd.returncode) THEN
                IF c.strict THEN raise("missing returncode") ELSE acc
            ELSE extract_commands_stop_at_invalid(cmds, i + 1, c,
                    [acc EXCEPT
                        !.tests = Append(@, make_test(cmd, i, c.base_name, c.name_prefix,
                                                      c.max_output_bytes, c.env_overrides)),
                        !.idx = Append(@, i)])

\* variant: strict mode lets a returncode that is no int pass as a skip
RECURSIVE extract_commands_rc_never_fatal(_, _, _, _)
extract_commands_rc_never_fatal(cmds, i, c, acc) ==
    IF i >= Len(cmds) THEN acc
    ELSE LET cmd == cmds[i + 1]
             skip == extract_commands_rc_never_fatal(cmds, i + 1, c, acc)
             raise(msg) == [acc EXCEPT !.err = ValueErrorAt(c.path, c.lineno, msg, i)]
         IN IF cmd.t # "dict" THEN
                IF c.strict THEN raise("is not an object") ELSE skip
            ELSE IF ~argv_ok(cmd.argv) THEN
                IF c.strict THEN raise("missing argv") ELSE skip
            ELSE IF ~isinstance_int(cmd.returncode) THEN skip
            ELSE extract_commands_rc_never_fatal(cmds, i + 1, c,
                    [acc EXCEPT
                        !.tests = Append(@, make_test(cmd, i, c.base_name, c.name_prefix,
                                                      c.max_output_bytes, c.env_overrides)),
                        !.idx = Append(@, i)])

\* variant: lenient mode also skips a command whose stdout is not a string
RECURSIVE extract_commands_lenient_needs_text(_, _, _, _)
extract_commands_lenient_needs_text(cmds, i, c, acc) ==
    IF i >= Len(cmds) THEN acc
    ELSE LET cmd == cmds[i + 1]
             skip == extract_commands_lenient_needs_text(cmds, i + 1, c, acc)
             raise(msg) == [acc EXCEPT !.err = ValueErrorAt(c.path, c.lineno, msg, i)]
         IN IF cmd.t # "dict" THEN
                IF c.strict THEN raise("is not an object") ELSE skip
            ELSE IF ~argv_ok(cmd.argv) THEN
                IF c.strict THEN raise("missing argv") ELSE skip
            ELSE IF ~isinstance_int(cmd.returncode) THEN
                IF c.strict THEN raise("missing returncode") ELSE skip
            ELSE IF ~c.strict /\ cmd.stdout.t \notin {"str", "absent"} THEN skip
            ELSE extract_commands_lenient_needs_text(cmds, i + 1, c,
                    [acc EXCEPT
                        !.tests = Append(@, make_test(cmd, i, c.base_name, c.name_prefix,
                                                      c.max_output_bytes, c.env_overrides)),
                        !.idx = Append(@, i)])

RECURSIVE extract_commands(_, _, _, _)
extract_commands(cmds, i, c, acc) ==
    IF i >= Len(cmds) THEN acc
    ELSE LET cmd == cmds[i + 1]
             skip == extract_commands(cmds, i + 1, c, acc)
             raise(msg) == [acc EXCEPT !.err = ValueErrorAt(c.path, c.lineno, msg, i)]
         IN IF cmd.t # "dict" THEN
                IF c.strict THEN raise("is not an object") ELSE skip
            ELSE IF ~argv_ok(cmd.argv) THEN
                IF c.strict THEN raise("missing argv") ELSE skip
            ELSE IF ~isinstance_int(cmd.returncode) THEN
                IF c.strict THEN raise("missing returncode") ELSE skip
            ELSE extract_commands(cmds, i + 1, c,
                    [acc EXCEPT
                        !.tests = Append(@, make_test(cmd, i, c.base_name, c.name_prefix,
                                                      c.max_output_bytes, c.env_overrides)),
                        !.idx = Append(@, i)])

extract_line(line, path, line_no, strict, name_prefix, max_output_bytes, ov) ==
    LET obj == json_loads_relaxed(line)
        nothing == [tests |-> <<>>, idx |-> <<>>, err |-> NoError]
        base_name == IF ~isinstance_str(obj.name) \/ Strip(obj.name.s) = <<>>
                     THEN STR_unknown ELSE obj.name.s
        \* obj.get("commands", []): a missing key reads as the empty list
        commands == IF obj.commands.t = "absent" THEN JList(<<>>) ELSE obj.commands
    IN IF json_loads_raises(line)
       THEN [nothing EXCEPT !.err = [NoError EXCEPT !.kind = "RecursionError"]]
       ELSE IF obj = None THEN nothing
       ELSE IF commands.t # "list" THEN
            IF strict
            THEN [nothing EXCEPT
                    !.err = ValueErrorAt(path, line_no, "commands is not a list", -1)]
            ELSE nothing
       ELSE extract_commands(commands.items, 0,
                [strict |-> strict, path |-> path, lineno |-> line_no,
                 base_name |-> base_name, name_prefix |-> name_prefix,
                 max_output_bytes |-> max_output_bytes, env_overrides |-> ov],
                nothing)

(***************************************************************************)
(* emit_c, before the file is opened (source lines 274-311): intern the    *)
(* seven text fields of every TestCase, in order, and build the table.     *)
(***************************************************************************)
PoolOf(r) == [buf |-> r.buf, index |-> r.index]

pack_test(pl, test) ==
    LET r1 == intern(pl, test.name)
        r2 == intern(PoolOf(r1), test.tool_env)
        r3 == intern(PoolOf(r2), test.args)
        r4 == intern(PoolOf(r3), test.expected_stdout)
        r5 == intern(PoolOf(r4), test.expected_stderr)
        r6 == intern(PoolOf(r5), test.stdout_sha256)
        r7 == intern(PoolOf(r6), test.stderr_sha256)
    IN [pool |-> PoolOf(r7),
        row |-> [name_off |-> r1.meta[1], name_len |-> r1.meta[2],
                 tool_off |-> r2.meta[1], tool_len |-> r2.meta[2],
                 args_off |-> r3.meta[1], args_len |-> r3.meta[2],
                 rc |-> test.expected_rc,
                 so_off |-> r4.meta[1], so_len |-> r4.meta[2],
                 se_off |-> r5.meta[1], se_len |-> r5.meta[2],
                 soh_off |-> r6.meta[1], soh_len |-> r6.meta[2],
                 seh_off |-> r7.meta[1], seh_len |-> r7.meta[2],
                 so_trunc |-> test.stdout_truncated,
                 se_trunc |-> test.stderr_truncated]]

\* variant: every new row goes to the front of the table
RECURSIVE pack_tests_newest_first(_, _, _, _)
pack_tests_newest_first(ts, k, pl, rows) ==
    IF k > Len(ts) THEN [pool |-> pl, packed |-> rows]
    ELSE LET r == pack_test(pl, ts[k])
         IN pack_tests_newest_first(ts, k + 1, r.pool, <<r.row>> \o rows)

RECURSIVE pack_tests(_, _, _, _)
pack_tests(ts, k, pl, rows) ==
    IF k > Len(ts) THEN [pool |-> pl, packed |-> rows]
    ELSE LET r == pack_test(pl, ts[k])
         IN pack_tests(ts, k + 1, r.pool, Append(rows, r.row))

c_escape_str(text) == c_escape_bytes(Utf8Encode(text))

\* one group of consecutive f.write calls of emit_c
Piece(kind, text, rows, flag) == [kind |-> kind, text |-> text, rows |-> rows, flag |-> flag]

\* the writes of emit_c in order: includes and struct (314-344), the pool
\* literal (345), pool_ptr and the table with its rows (346-373), the rest
\* with default_bin_dir and require_exact (375-486)
\* ".expected_rc = "
STR_expected_rc == <<46, 101, 120, 112, 101, 99, 116, 101, 100, 95, 114, 99, 32, 61, 32>>

\* str() of the returncode as the f-string of source line 361 formats it:
\* an int in decimal with its sign, a bool as True or False
format_rc(rc) ==
    IF rc.t = "bool"
    THEN IF rc.n = 1 THEN <<84, 114, 117, 101>> ELSE <<70, 97, 108, 115, 101>>
    ELSE IF rc.n < 0 THEN <<45>> \o Decimal(-rc.n) ELSE Decimal(rc.n)

\* the ".expected_rc = <rc>," lines of the table, one per row
expected_rc_lines(rows) ==
    Flatten([k \in 1..Len(rows) |->
                STR_expected_rc \o format_rc(rows[k].rc) \o <<44, NEWLINE>>])

emit_pieces(pl, rows, require_exact, default_bin_dir) ==
    <<Piece("prelude", <<>>, <<>>, FALSE),
      Piece("pool", split_c_literal(c_escape_bytes(pl.buf), DEFAULT_MAX_CHUNK), <<>>, FALSE),
      Piece("table", expected_rc_lines(rows), rows, FALSE),
      Piece("runner", c_escape_str(default_bin_dir), <<>>, require_exact)>>

(***************************************************************************)
(* SpecClamp: clamp a bounded text, then clamp the result again.           *)
(***************************************************************************)
\* 'a', e-acute (2 bytes), euro sign (3 bytes), U+1F600 (4 bytes), a lone
\* surrogate, which json.loads can deliver from "\ud800", and U+FFFD itself
ClampChars == {97, 233, 8364, 128512, 55296, 65533}

ClampTexts == SeqsUpTo(ClampChars, MaxTextLen)

NoResult == <<<<>>, 0>>

IdleClamp ==
    /\ s = <<>>
    /\ max_bytes = 0
    /\ clamped = NoResult
    /\ reclamped = NoResult
    /\ cpc = "idle"

IdlePool ==
    /\ buf = <<>>
    /\ index = NewPool.index
    /\ ncalls = 0
    /\ arg = <<>>
    /\ ret = <<0, 0>>
    /\ max_chunk = DEFAULT_MAX_CHUNK
    /\ pool_lit = <<>>
    /\ ppc = "idle"

IdleEscape ==
    /\ esc_data = <<>>
    /\ literal = <<>>
    /\ compiled = <<>>
    /\ epc = "idle"

IdleTool ==
    /\ tool_items = <<>>
    /\ overrides = NoOverrides
    /\ tool0 = <<>>
    /\ tool_env = <<>>
    /\ tpc = "idle"

NoLine == [file |-> 0, lineno |-> 0, line |-> None]

NoFile == [exists |-> FALSE, content |-> <<>>]

IdleRun ==
    /\ ns = [strict |-> FALSE, name_prefix |-> <<>>, max_output_bytes |-> 0,
             require_exact |-> FALSE, tool_env |-> <<>>, default_bin_dir |-> <<>>]
    /\ inputs = <<>>
    /\ pc = "idle"
    /\ fidx = 0
    /\ lineno = 0
    /\ nread = 0
    /\ cur = NoLine
    /\ tests = <<>>
    /\ origins = <<>>
    /\ env_overrides = NoOverrides
    /\ pool = NewPool
    /\ packed = <<>>
    /\ pieces = <<>>
    /\ out_file = NoFile
    /\ out_file0 = NoFile
    /\ exit_code = -1
    /\ err = NoError
    /\ wrote = -1

\* a null pointer of the generated C program
CNull == <<-1>>

IdleRunner ==
    /\ test_strpool = <<>>
    /\ fixture_root = "none"
    /\ case_i = 0
    /\ passed = 0
    /\ failed = 0
    /\ getenv_ret = CNull
    /\ bin_path = CNull
    /\ cmd_line = <<>>
    /\ got_out = CNull
    /\ got_err = CNull
    /\ got_rc = 0
    /\ ok = TRUE
    /\ out_match = TRUE
    /\ err_match = TRUE
    /\ calls = <<>>
    /\ rpc = "idle"
    /\ runner_exit = -1

InitClamp ==
    /\ IdlePool
    /\ IdleTool
    /\ IdleEscape
    /\ IdleRun
    /\ IdleRunner
    /\ s \in ClampTexts
    /\ max_bytes \in 0..MaxBudget
    /\ clamped = NoResult
    /\ reclamped = NoResult
    /\ cpc = "start"

Clamp ==
    /\ cpc = "start"
    /\ clamped' = clamp_utf8_bytes(s, max_bytes)
    /\ cpc' = "clamped"
    /\ UNCHANGED <<s, max_bytes, reclamped>>
    /\ UNCHANGED <<varsPool, varsTool, varsRun, varsRunner, varsEscape>>

Reclamp ==
    /\ cpc = "clamped"
    /\ reclamped' = clamp_utf8_bytes(clamped[1], max_bytes)
    /\ cpc' = "reclamped"
    /\ UNCHANGED <<s, max_bytes, clamped>>
    /\ UNCHANGED <<varsPool, varsTool, varsRun, varsRunner, varsEscape>>

NextClamp == Clamp \/ Reclamp

SpecClamp == InitClamp /\ [][NextClamp]_vars

(***************************************************************************)
(* SpecPool: emit_c creates a pool, interns "" first, interns further      *)
(* strings and then renders the pool as split_c_literal(c_escape_bytes()). *)
(* emit_c itself passes no max_chunk (the default 1400); the function      *)
(* takes any, and the model draws it from 1..MaxChunk.                     *)
(***************************************************************************)
\* "", "a", "\n", "1", e-acute (two bytes outside printable ASCII)
PoolTexts == {<<>>, <<97>>, <<10>>, <<49>>, <<233>>}

InitPool ==
    /\ IdleClamp
    /\ IdleTool
    /\ IdleEscape
    /\ IdleRun
    /\ IdleRunner
    /\ buf = NewPool.buf
    /\ index = NewPool.index
    /\ ncalls = 0
    /\ arg = <<>>
    /\ ret = <<0, 0>>
    /\ max_chunk = DEFAULT_MAX_CHUNK
    /\ pool_lit = <<>>
    /\ ppc = "new"

DoIntern(text) ==
    LET r == intern([buf |-> buf, index |-> index], text)
    IN /\ buf' = r.buf
       /\ index' = r.index
       /\ ret' = r.meta
       /\ arg' = text
       /\ ncalls' = ncalls + 1

InternEmpty ==
    /\ ppc = "new"
    /\ DoIntern(<<>>)
    /\ ppc' = "interning"
    /\ UNCHANGED <<max_chunk, pool_lit>>
    /\ UNCHANGED <<varsClamp, varsTool, varsRun, varsRunner, varsEscape>>

Intern ==
    /\ ppc = "interning"
    /\ ncalls <= MaxInternCalls
    /\ \E text \in PoolTexts : DoIntern(text)
    /\ UNCHANGED <<ppc, max_chunk, pool_lit>>
    /\ UNCHANGED <<varsClamp, varsTool, varsRun, varsRunner, varsEscape>>

PoolLiteral ==
    /\ ppc = "interning"
    /\ \E chunk \in 1..MaxChunk :
        /\ max_chunk' = chunk
        /\ pool_lit' = split_c_literal(c_escape_bytes(buf), chunk)
    /\ ppc' = "emitted"
    /\ UNCHANGED <<buf, index, ncalls, arg, ret>>
    /\ UNCHANGED <<varsClamp, varsTool, varsRun, varsRunner, varsEscape>>

NextPool == InternEmpty \/ Intern \/ PoolLiteral

SpecPool == InitPool /\ [][NextPool]_vars

(***************************************************************************)
(* SpecToolEnv: main parses the --tool-env items, extract_tests resolves   *)
(* argv[0] of a command against the resulting table.                       *)
(***************************************************************************)
UpperChar(c) == IF c >= 97 /\ c <= 122 THEN c - 32 ELSE c

Upper(text) == [i \in 1..Len(text) |-> UpperChar(text[i])]

\* "", "zip", "unzip", "zipinfo", "un", "info", "x": pairs of them give
\* names such as "unzip", "zipinfo", "unzipinfo", "zipinfounzip", "xzip"
ToolWords == {<<>>, STR_zip, STR_unzip, STR_zipinfo, <<117, 110>>,
              <<105, 110, 102, 111>>, <<120>>}

\* "", "/usr/bin/", "./", "UNZIP/", "zipinfo/"
ToolDirs == {<<>>, <<47, 117, 115, 114, 47, 98, 105, 110, 47>>, <<46, 47>>,
             <<85, 78, 90, 73, 80, 47>>, <<122, 105, 112, 105, 110, 102, 111, 47>>}

ToolNames ==
    {d \o w : d \in ToolDirs,
              w \in {a \o b : a \in ToolWords, b \in ToolWords}
                    \cup {Upper(a \o b) : a \in ToolWords, b \in ToolWords}}

\* "zip=MY_ZIP", " UnZip = MY_UNZIP ", "x=ZIP_BIN", "zipinfo" (no "="),
\* "=X" (empty key), "zip= " (empty value)
OverrideItems == {<<122, 105, 112, 61, 77, 89, 95, 90, 73, 80>>,
                  <<32, 85, 110, 90, 105, 112, 32, 61, 32, 77, 89, 95, 85, 78, 90, 73, 80, 32>>,
                  <<120, 61, 90, 73, 80, 95, 66, 73, 78>>,
                  <<122, 105, 112, 105, 110, 102, 111>>,
                  <<61, 88>>,
                  <<122, 105, 112, 61, 32>>}

InitToolEnv ==
    /\ IdleClamp
    /\ IdleEscape
    /\ IdlePool
    /\ IdleRun
    /\ IdleRunner
    /\ tool_items \in SeqsUpTo(OverrideItems, MaxOverrides)
    /\ overrides = NoOverrides
    /\ tool0 \in ToolNames
    /\ tool_env = <<>>
    /\ tpc = "start"

ParseOverrides ==
    /\ tpc = "start"
    /\ LET r == parse_overrides(tool_items)
       IN /\ overrides' = r.table
          /\ tpc' = IF r.err THEN "ValueError" ELSE "parsed"
    /\ UNCHANGED <<tool_items, tool0, tool_env>>
    /\ UNCHANGED <<varsClamp, varsPool, varsRun, varsRunner, varsEscape>>

ResolveTool ==
    /\ tpc = "parsed"
    /\ tool_env' = tool_env_for(tool0, overrides)
    /\ tpc' = "resolved"
    /\ UNCHANGED <<tool_items, overrides, tool0>>
    /\ UNCHANGED <<varsClamp, varsPool, varsRun, varsRunner, varsEscape>>

NextToolEnv == ParseOverrides \/ ResolveTool

SpecToolEnv == InitToolEnv /\ [][NextToolEnv]_vars

(***************************************************************************)
(* Spec: one run of main().  The lines of an input file are delivered by   *)
(* the file iterator one at a time; what a line holds is decided when it   *)
(* is read.  cur and origins record, for the properties, the line read     *)
(* last and the command each TestCase came from.                           *)
(***************************************************************************)
DEFAULT_MAX_OUTPUT_BYTES == 131072

\* "./build"
DEFAULT_BIN_DIR == <<46, 47, 98, 117, 105, 108, 100>>

\* ["zip", "-r", "out.zip", "."]
ArgvZip == JList(<<JStr(STR_zip), JStr(<<45, 114>>),
                   JStr(<<111, 117, 116, 46, 122, 105, 112>>), JStr(<<46>>)>>)

\* returncode 0, stdout "adding: x\n", stderr ""
CmdZip == JCmd(ArgvZip, JInt(0),
               JStr(<<97, 100, 100, 105, 110, 103, 58, 32, 120, 10>>), JStr(<<>>))

\* ["zip", "", "it's"]
ArgvZipY == JList(<<JStr(STR_zip), JStr(<<>>), JStr(<<105, 116, 39, 115>>)>>)

\* a zip command with these arguments, stdout "adding: y\n" and no stderr
\* key
CmdZipY == JCmd(ArgvZipY, JInt(0),
                JStr(<<97, 100, 100, 105, 110, 103, 58, 32, 121, 10>>), JAbsent)

\* ["/usr/bin/UNZIP", "a b"], returncode 1, stdout not a string,
\* stderr "caf<e-acute> <euro>"
CmdUnzip == JCmd(JList(<<JStr(<<47, 117, 115, 114, 47, 98, 105, 110, 47, 85, 78, 90, 73, 80>>),
                         JStr(<<97, 32, 98>>)>>),
                 JInt(1), JInt(7), JStr(<<99, 97, 102, 233, 32, 8364>>))

\* ["zip"] with returncode "0" (a string), ["zipinfo"] with no returncode,
\* with returncode 1.5, with returncode null, with returncode true
CmdRcStr == JCmd(JList(<<JStr(STR_zip)>>), JStr(<<48>>), JStr(<<>>), JStr(<<>>))

CmdRcAbsent == JCmd(JList(<<JStr(STR_zipinfo)>>), JAbsent, JStr(<<>>), JStr(<<>>))

CmdRcFloat == JCmd(JList(<<JStr(STR_zipinfo)>>), JFloat, JStr(<<>>), JStr(<<>>))

CmdRcNull == JCmd(JList(<<JStr(STR_zipinfo)>>), JNull, JStr(<<>>), JStr(<<>>))

CmdRcTrue == JCmd(JList(<<JStr(STR_zipinfo)>>), JTrue, JStr(<<>>), JStr(<<>>))

\* ["zipinfo"], returncode 2, no stdout, stderr "no\u0000z" (json.loads
\* accepts the escaped NUL)
CmdZipinfo == JCmd(JList(<<JStr(STR_zipinfo)>>), JInt(2), JStr(<<>>),
                   JStr(<<110, 111, 0, 122>>))

\* no argv key, argv [], argv ["zip", 1]
CmdNoArgv == JCmd(JNotList("absent"), JInt(0), JStr(<<>>), JStr(<<>>))

CmdArgvEmpty == JCmd(JList(<<>>), JInt(0), JStr(<<>>), JStr(<<>>))

CmdArgvNonStr == JCmd(JList(<<JStr(STR_zip), JInt(1)>>), JInt(0), JStr(<<>>), JStr(<<>>))

NameA == JStr(<<97>>)

\* "name": "\t " (a tab and a space)
NameBlank == JStr(<<9, 32>>)

Lines ==
    { JLine("blank", JAbsent, JNotList("absent")),
      JLine("badjson", JAbsent, JNotList("absent")),
      JLine("list", JAbsent, JNotList("absent")),
      JLine("overdeep", JAbsent, JNotList("absent")),
      JLine("object", NameA, JNotList("absent")),
      JLine("object", NameA, JNotList("int")),
      JLine("object", NameA, JList(<<CmdZip, CmdZipY>>)),
      JLine("object", JAbsent, JList(<<JNotCmd, CmdUnzip>>)),
      JLine("object", NameA, JList(<<CmdRcStr, CmdZip>>)),
      JLine("object", JStr(<<32, 32>>), JList(<<CmdNoArgv, CmdRcTrue>>)),
      JLine("object", JInt(3), JList(<<CmdArgvNonStr, CmdRcAbsent, CmdArgvEmpty>>)),
      JLine("object", NameA, JList(<<CmdRcFloat, CmdRcNull, CmdUnzip>>)),
      JLine("object", NameBlank, JList(<<CmdUnzip, CmdZipinfo>>)) }

\* the command lines of the model: all defaults; --name-prefix p_ with
\* --require-exact and --tool-env zip=MY_ZIP; --tool-env nope (no "=");
\* --tool-env zip=MY_ZIP --tool-env " =X" (empty key); --tool-env "zip= "
\* (empty value); each of them with and without --strict and with
\* --max-output-bytes absent, 4 or -1
Arguments(strict, budget, prefix, items, exact) ==
    [strict |-> strict, name_prefix |-> prefix, max_output_bytes |-> budget,
     require_exact |-> exact, tool_env |-> items, default_bin_dir |-> DEFAULT_BIN_DIR]

STR_zip_MY_ZIP == <<122, 105, 112, 61, 77, 89, 95, 90, 73, 80>>

CommandLines ==
    {Arguments(st, b, o[1], o[2], o[3]) :
        st \in BOOLEAN,
        b \in {-1, 4, DEFAULT_MAX_OUTPUT_BYTES},
        o \in {<<<<>>, <<>>, FALSE>>,
               <<<<112, 95>>, <<STR_zip_MY_ZIP>>, TRUE>>,
               <<<<>>, <<<<110, 111, 112, 101>>>>, FALSE>>,
               <<<<>>, <<STR_zip_MY_ZIP, <<32, 61, 88>>>>, FALSE>>,
               <<<<>>, <<<<122, 105, 112, 61, 32>>>>, TRUE>>}}

\* the output path before the run: nothing there, or an older artifact
OldFile == [exists |-> TRUE, content |-> <<Piece("old", <<>>, <<>>, FALSE)>>]

Init ==
    /\ IdleClamp
    /\ IdlePool
    /\ IdleTool
    /\ IdleEscape
    /\ IdleRunner
    /\ ns \in CommandLines
    /\ inputs \in UNION {[1..k -> [exists : BOOLEAN]] : k \in 1..MaxFiles}
    /\ pc = "main"
    /\ fidx = 0
    /\ lineno = 0
    /\ nread = 0
    /\ cur = NoLine
    /\ tests = <<>>
    /\ origins = <<>>
    /\ env_overrides = NoOverrides
    /\ pool = NewPool
    /\ packed = <<>>
    /\ pieces = <<>>
    /\ out_file0 \in {NoFile, OldFile}
    /\ out_file = out_file0
    /\ exit_code = -1
    /\ err = NoError
    /\ wrote = -1

Exit(code, e) ==
    /\ pc' = "exit"
    /\ exit_code' = code
    /\ err' = e
    /\ UNCHANGED wrote

\* main, source lines 490-504: the checks made before any input is read
MainChecks ==
    /\ pc = "main"
    /\ LET r == parse_overrides(ns.tool_env)
       IN IF ns.max_output_bytes < 0
          THEN /\ Exit(2, [NoError EXCEPT !.kind = "usage", !.msg = "--max-output-bytes must be >= 0"])
               /\ UNCHANGED <<env_overrides, fidx>>
          ELSE IF r.err
          THEN /\ Exit(1, [NoError EXCEPT !.kind = "ValueError", !.msg = "bad override"])
               /\ UNCHANGED <<env_overrides, fidx>>
          ELSE IF \E k \in 1..Len(inputs) : ~inputs[k].exists
          THEN /\ Exit(2, [NoError EXCEPT !.kind = "usage", !.msg = "missing input",
                              !.path = CHOOSE k \in 1..Len(inputs) :
                                  ~inputs[k].exists /\ \A j \in 1..(k - 1) : inputs[j].exists])
               /\ env_overrides' = r.table
               /\ UNCHANGED fidx
          ELSE /\ pc' = "extract"
               /\ env_overrides' = r.table
               /\ fidx' = 1
               /\ UNCHANGED <<exit_code, err, wrote>>
    /\ UNCHANGED <<ns, inputs, lineno, nread, cur, tests, origins, pool, packed,
                   pieces, out_file, out_file0>>
    /\ UNCHANGED <<varsClamp, varsPool, varsTool, varsRunner, varsEscape>>

\* extract_tests: the file iterator delivers the next line of inputs[fidx]
ReadLine ==
    /\ pc = "extract"
    /\ nread < MaxLines
    /\ \E line \in Lines :
        LET r == extract_line(line, fidx, lineno + 1, ns.strict, ns.name_prefix,
                              ns.max_output_bytes, env_overrides)
        IN /\ cur' = [file |-> fidx, lineno |-> lineno + 1, line |-> line]
           /\ tests' = tests \o r.tests
           /\ origins' = origins \o
                [k \in 1..Len(r.idx) |->
                    [file |-> fidx, lineno |-> lineno + 1, index |-> r.idx[k],
                     name |-> line.name,
                     cmd |-> line.commands.items[r.idx[k] + 1]]]
           /\ IF r.err.kind # "none"
              THEN Exit(1, r.err)
              ELSE UNCHANGED <<pc, exit_code, err, wrote>>
    /\ lineno' = lineno + 1
    /\ nread' = nread + 1
    /\ UNCHANGED <<ns, inputs, fidx, env_overrides, pool, packed, pieces,
                   out_file, out_file0>>
    /\ UNCHANGED <<varsClamp, varsPool, varsTool, varsRunner, varsEscape>>

\* variant: emission starts when the first input file is exhausted
EndOfFile_emits_early ==
    /\ pc = "extract"
    /\ pc' = "emit"
    /\ UNCHANGED <<fidx, lineno>>
    /\ UNCHANGED <<ns, inputs, nread, cur, tests, origins, env_overrides, pool,
                   packed, pieces, out_file, out_file0, exit_code, err, wrote>>
    /\ UNCHANGED <<varsClamp, varsPool, varsTool, varsRunner, varsEscape>>

\* extract_tests: inputs[fidx] is exhausted; go on to the next file, or
\* return the tests to main, which calls emit_c
EndOfFile ==
    /\ pc = "extract"
    /\ IF fidx < Len(inputs)
       THEN /\ fidx' = fidx + 1
            /\ lineno' = 0
            /\ pc' = pc
       ELSE /\ pc' = "emit"
            /\ UNCHANGED <<fidx, lineno>>
    /\ UNCHANGED <<ns, inputs, nread, cur, tests, origins, env_overrides, pool,
                   packed, pieces, out_file, out_file0, exit_code, err, wrote>>
    /\ UNCHANGED <<varsClamp, varsPool, varsTool, varsRunner, varsEscape>>

\* variant: the pool is not seeded with the empty string
EmitBuild_unseeded ==
    /\ pc = "emit"
    /\ LET r == pack_tests(tests, 1, NewPool, <<>>)
       IN /\ pool' = r.pool
          /\ packed' = r.packed
          /\ pieces' = emit_pieces(r.pool, r.packed, ns.require_exact, ns.default_bin_dir)
    /\ pc' = "open"
    /\ UNCHANGED <<ns, inputs, fidx, lineno, nread, cur, tests, origins,
                   env_overrides, out_file, out_file0, exit_code, err, wrote>>
    /\ UNCHANGED <<varsClamp, varsPool, varsTool, varsRunner, varsEscape>>

\* emit_c, source lines 274-311: pool, table and literals
EmitBuild ==
    /\ pc = "emit"
    /\ LET r == pack_tests(tests, 1, PoolOf(intern(NewPool, <<>>)), <<>>)
       IN /\ pool' = r.pool
          /\ packed' = r.packed
          /\ pieces' = emit_pieces(r.pool, r.packed, ns.require_exact, ns.default_bin_dir)
    /\ pc' = "open"
    /\ UNCHANGED <<ns, inputs, fidx, lineno, nread, cur, tests, origins,
                   env_overrides, out_file, out_file0, exit_code, err, wrote>>
    /\ UNCHANGED <<varsClamp, varsPool, varsTool, varsRunner, varsEscape>>

\* variant: the file is opened for appending
EmitOpen_append ==
    /\ pc = "open"
    /\ out_file' = [exists |-> TRUE, content |-> out_file.content]
    /\ pc' = "write"
    /\ UNCHANGED <<ns, inputs, fidx, lineno, nread, cur, tests, origins,
                   env_overrides, pool, packed, pieces, out_file0, exit_code, err, wrote>>
    /\ UNCHANGED <<varsClamp, varsPool, varsTool, varsRunner, varsEscape>>

\* emit_c, source line 313: out_path.open("w") creates or truncates the file
EmitOpen ==
    /\ pc = "open"
    /\ out_file' = [exists |-> TRUE, content |-> <<>>]
    /\ pc' = "write"
    /\ UNCHANGED <<ns, inputs, fidx, lineno, nread, cur, tests, origins,
                   env_overrides, pool, packed, pieces, out_file0, exit_code, err, wrote>>
    /\ UNCHANGED <<varsClamp, varsPool, varsTool, varsRunner, varsEscape>>

\* out_path.open("w") raises OSError: nothing at the path is touched
EmitOpenFails ==
    /\ pc = "open"
    /\ Exit(1, [NoError EXCEPT !.kind = "OSError", !.msg = "open"])
    /\ UNCHANGED <<ns, inputs, fidx, lineno, nread, cur, tests, origins,
                   env_overrides, pool, packed, pieces, out_file, out_file0>>
    /\ UNCHANGED <<varsClamp, varsPool, varsTool, varsRunner, varsEscape>>

\* emit_c, source lines 314-486: the next group of f.write calls
EmitWrite ==
    /\ pc = "write"
    /\ Len(out_file.content) < Len(pieces)
    /\ out_file' = [out_file EXCEPT !.content = Append(@, pieces[Len(@) + 1])]
    /\ UNCHANGED <<ns, inputs, pc, fidx, lineno, nread, cur, tests, origins,
                   env_overrides, pool, packed, pieces, out_file0, exit_code, err, wrote>>
    /\ UNCHANGED <<varsClamp, varsPool, varsTool, varsRunner, varsEscape>>

\* a write raises OSError (disk full, ...): the with block closes the file
\* and the exception leaves emit_c and main; nothing removes the file
EmitWriteFails ==
    /\ pc = "write"
    /\ Len(out_file.content) < Len(pieces)
    /\ Exit(1, [NoError EXCEPT !.kind = "OSError", !.msg = "write"])
    /\ UNCHANGED <<ns, inputs, fidx, lineno, nread, cur, tests, origins,
                   env_overrides, pool, packed, pieces, out_file, out_file0>>
    /\ UNCHANGED <<varsClamp, varsPool, varsTool, varsRunner, varsEscape>>

\* the with block ends, main prints "wrote ... with len(tests) tests" and
\* returns 0 (source lines 521-522)
Finish ==
    /\ pc = "write"
    /\ Len(out_file.content) = Len(pieces)
    /\ pc' = "exit"
    /\ exit_code' = 0
    /\ wrote' = Len(tests)
    /\ UNCHANGED err
    /\ UNCHANGED <<ns, inputs, fidx, lineno, nread, cur, tests, origins,
                   env_overrides, pool, packed, pieces, out_file, out_file0>>
    /\ UNCHANGED <<varsClamp, varsPool, varsTool, varsRunner, varsEscape>>

Next ==
    \/ MainChecks
    \/ ReadLine
    \/ EndOfFile
    \/ EmitBuild
    \/ EmitOpen
    \/ EmitOpenFails
    \/ EmitWrite
    \/ EmitWriteFails
    \/ Finish

Spec == Init /\ [][Next]_vars

(***************************************************************************)
(* What the chunks of a pool literal are, and how a C compiler reads them  *)
(***************************************************************************)
\* the lines of the emitted text: one quoted literal per line
RECURSIVE LinesFrom(_, _, _)
LinesFrom(text, i, part) ==
    IF i > Len(text) THEN <<part>>
    ELSE IF text[i] = NEWLINE THEN <<part>> \o LinesFrom(text, i + 1, <<>>)
    ELSE LinesFrom(text, i + 1, Append(part, text[i]))

ChunkInners(lit) ==
    LET ls == LinesFrom(lit, 1, <<>>)
    IN [k \in 1..Len(ls) |-> SubSeq(ls[k], 2, Len(ls[k]) - 1)]

\* offsets in the escaped text at which one chunk ends and the next begins
ChunkBoundaries(lit) ==
    LET inners == ChunkInners(lit)
    IN {Len(Flatten(SubSeq(inners, 1, k))) : k \in 1..(Len(inners) - 1)}

IsOctalDigit(c) == c >= 48 /\ c <= 55

\* offsets p such that characters p and p+1 of the escaped text belong to
\* the same escape sequence
RECURSIVE EscapeInteriors(_, _)
EscapeInteriors(inner, i) ==
    IF i > Len(inner) THEN {}
    ELSE IF inner[i] # BACKSLASH THEN EscapeInteriors(inner, i + 1)
    ELSE IF i < Len(inner) /\ IsOctalDigit(inner[i + 1])
         THEN {i, i + 1, i + 2} \cup EscapeInteriors(inner, i + 4)
         ELSE {i} \cup EscapeInteriors(inner, i + 2)

Malformed == <<-1>>

\* the bytes a C compiler takes from the inner text of ONE quoted literal:
\* an octal escape is up to three octal digits, and a backslash that is the
\* last character escapes the closing quote, leaving the literal unterminated
RECURSIVE CUnescape(_, _)
CUnescape(inner, i) ==
    IF i > Len(inner) THEN <<>>
    ELSE IF inner[i] = QUOTE THEN Malformed
    ELSE IF inner[i] # BACKSLASH THEN <<inner[i]>> \o CUnescape(inner, i + 1)
    ELSE IF i = Len(inner) THEN Malformed
    ELSE LET c == inner[i + 1]
         IN IF IsOctalDigit(c) THEN
                LET two == i + 2 <= Len(inner) /\ IsOctalDigit(inner[i + 2])
                    three == two /\ i + 3 <= Len(inner) /\ IsOctalDigit(inner[i + 3])
                IN IF three THEN
                       <<(c - 48) * 64 + (inner[i + 2] - 48) * 8 + (inner[i + 3] - 48)>>
                       \o CUnescape(inner, i + 4)
                   ELSE IF two THEN
                       <<(c - 48) * 8 + (inner[i + 2] - 48)>> \o CUnescape(inner, i + 3)
                   ELSE <<c - 48>> \o CUnescape(inner, i + 2)
            ELSE IF c = 92 THEN <<92>> \o CUnescape(inner, i + 2)
            ELSE IF c = 34 THEN <<34>> \o CUnescape(inner, i + 2)
            ELSE IF c = 110 THEN <<10>> \o CUnescape(inner, i + 2)
            ELSE IF c = 114 THEN <<13>> \o CUnescape(inner, i + 2)
            ELSE IF c = 116 THEN <<9>> \o CUnescape(inner, i + 2)
            ELSE Malformed

\* adjacent literals are unescaped one by one and then concatenated
CompilerReads(lit) ==
    LET inners == ChunkInners(lit)
    IN Flatten([k \in 1..Len(inners) |-> CUnescape(inners[k], 1)])

EscapedText(data) ==
    LET lit == c_escape_bytes(data) IN SubSeq(lit, 2, Len(lit) - 1)

(***************************************************************************)
(* C1: no chunk boundary produced by split_c_literal falls inside an       *)
(* escape sequence of the escaped pool text.                               *)
(***************************************************************************)
C1_NoBoundaryInsideEscape ==
    ppc = "emitted" =>
        ChunkBoundaries(pool_lit) \cap EscapeInteriors(EscapedText(buf), 1) = {}

(***************************************************************************)
(* C2: unescaping each emitted chunk as a separate literal and             *)
(* concatenating the results reproduces the pool buffer byte for byte.     *)
(***************************************************************************)
C2_ChunksRoundTrip ==
    ppc = "emitted" => CompilerReads(pool_lit) = buf

(***************************************************************************)
(* C7: interning bytes that were interned before returns the pair of the   *)
(* first time and leaves buffer and mapping unchanged; no recorded pair    *)
(* ever changes; unique entries never exceed the number of intern calls.   *)
(***************************************************************************)
C7_InternDedup ==
    [][ncalls' = ncalls + 1 =>
        LET b == Utf8Encode(arg')
        IN /\ b \in DOMAIN index =>
                /\ ret' = index[b]
                /\ buf' = buf
                /\ index' = index
           /\ \A k \in DOMAIN index : k \in DOMAIN index' /\ index'[k] = index[k]
           /\ ret' = index'[b]
           /\ Cardinality(DOMAIN index') <= ncalls']_vars

\* a string was interned a second time, after other strings, and got the
\* pair of its first interning back
C7_Witness ==
    /\ ppc = "interning"
    /\ ncalls > Cardinality(DOMAIN index)
    /\ ret[1] > 0
    /\ ret[1] + ret[2] + 1 < Len(buf)
    /\ ret = index[Utf8Encode(arg)]

(***************************************************************************)
(* Vocabulary of the properties of a run                                   *)
(***************************************************************************)
\* a line has been read, and it decoded to an object with a commands list
LineRead == cur.file > 0

RecordRead == LineRead /\ cur.line.t = "object" /\ cur.line.commands.t = "list"

CurCommands == cur.line.commands.items

\* the TestCases that came from command i of the line read last
CasesOf(i) ==
    {k \in 1..Len(tests) :
        origins[k].file = cur.file /\ origins[k].lineno = cur.lineno
        /\ origins[k].index = i}

\* command i of the line read last is an object with a usable argv
WellFormedArgv(i) ==
    LET cmd == CurCommands[i + 1]
    IN /\ cmd.t = "dict"
       /\ cmd.argv.t = "list"
       /\ cmd.argv.items # <<>>
       /\ \A k \in 1..Len(cmd.argv.items) : cmd.argv.items[k].t = "str"

\* ... and its returncode is absent, null, a string or a float
ReturncodeNotInteger(i) ==
    CurCommands[i + 1].returncode.t \in {"absent", "NoneType", "str", "float"}

(***************************************************************************)
(* C4: in strict mode a line that is not JSON, is JSON but no object, or   *)
(* is an object without the commands field aborts the run with an error    *)
(* naming path and line number, and no output file is written.             *)
(***************************************************************************)
C4_StrictAbortsOnMalformedLine ==
    (/\ ns.strict
     /\ LineRead
     /\ \/ cur.line.t \in {"badjson", "list"}
        \/ cur.line.t = "object" /\ cur.line.commands.t = "absent")
    => /\ pc = "exit"
       /\ exit_code # 0
       /\ err.path = cur.file
       /\ err.lineno = cur.lineno
       /\ out_file = out_file0

(***************************************************************************)
(* C5 as stated: in lenient mode a command whose returncode is not an      *)
(* integer is still emitted as a TestCase, with expected_rc = 0.           *)
(***************************************************************************)
C5_LenientCoercesReturncode ==
    (~ns.strict /\ RecordRead) =>
        \A i \in 0..(Len(CurCommands) - 1) :
            (WellFormedArgv(i) /\ ReturncodeNotInteger(i)) =>
                \E k \in CasesOf(i) : tests[k].expected_rc = JInt(0)

(***************************************************************************)
(* C5 as amended: in lenient mode a command whose returncode is not an     *)
(* integer is skipped: no TestCase is emitted for it, the run does not     *)
(* abort, and the commands of the record with a well-formed argv and an    *)
(* integer returncode are each emitted once.                               *)
(***************************************************************************)
C5_LenientSkipsReturncode ==
    (~ns.strict /\ RecordRead) =>
        /\ err.kind # "ValueError"
        /\ \A i \in 0..(Len(CurCommands) - 1) :
            /\ (WellFormedArgv(i) /\ ReturncodeNotInteger(i)) => CasesOf(i) = {}
            /\ (WellFormedArgv(i) /\ CurCommands[i + 1].returncode.t = "int")
                    => Cardinality(CasesOf(i)) = 1

\* a lenient run read a record whose first command has a string returncode
\* and whose second command is valid, and went on to write the artifact
C5_Witness ==
    /\ ~ns.strict
    /\ RecordRead
    /\ Len(CurCommands) = 2
    /\ WellFormedArgv(0) /\ ReturncodeNotInteger(0)
    /\ CasesOf(0) = {}
    /\ CasesOf(1) # {}
    /\ pc = "exit"
    /\ exit_code = 0

(***************************************************************************)
(* C6: if writing the output fails part-way, no partial file is left at    *)
(* the output path: it holds what it held before, or the whole artifact.   *)
(***************************************************************************)
C6_NoPartialArtifact ==
    (pc = "exit" /\ err.kind = "OSError") =>
        \/ out_file = out_file0
        \/ (out_file.exists /\ out_file.content = pieces)

(***************************************************************************)
(* C9: the digests stored in a TestCase are those of the clamped texts     *)
(* stored in the same TestCase, which are the clamped captures; so equal   *)
(* clamped texts carry equal digests whatever the raw outputs were.        *)
(***************************************************************************)
RawText(v) == IF v.t = "str" THEN v.s ELSE <<>>

C9_DigestOfClampedText ==
    \A k \in 1..Len(tests) :
        /\ tests[k].expected_stdout
              = clamp_utf8_bytes(RawText(origins[k].cmd.stdout), ns.max_output_bytes)[1]
        /\ tests[k].expected_stderr
              = clamp_utf8_bytes(RawText(origins[k].cmd.stderr), ns.max_output_bytes)[1]
        /\ tests[k].stdout_sha256 = hexdigest(Utf8Encode(tests[k].expected_stdout))
        /\ tests[k].stderr_sha256 = hexdigest(Utf8Encode(tests[k].expected_stderr))
        /\ \A j \in 1..Len(tests) :
              tests[j].expected_stdout = tests[k].expected_stdout
                  => tests[j].stdout_sha256 = tests[k].stdout_sha256

\* two emitted cases whose raw stdout differ, whose clamped stdout are the
\* same truncated text and whose digests are equal
C9_Witness ==
    \E j, k \in 1..Len(tests) :
        /\ RawText(origins[j].cmd.stdout) # RawText(origins[k].cmd.stdout)
        /\ tests[j].stdout_truncated = 1
        /\ tests[j].expected_stdout = tests[k].expected_stdout
        /\ tests[j].expected_stdout # RawText(origins[j].cmd.stdout)
        /\ tests[j].stdout_sha256 = tests[k].stdout_sha256
        /\ tests[j].stdout_sha256 # hexdigest(Utf8Encode(RawText(origins[j].cmd.stdout)))

(***************************************************************************)
(* C8: tool_env_for resolves the lower-cased basename of argv[0] by the    *)
(* precedence override table > "zipinfo" > "unzip" > "zip" > TOOL_BIN, and *)
(* the result depends neither on the letter case of the basename nor on    *)
(* the directory part.                                                     *)
(***************************************************************************)
C8_ToolEnvPrecedence ==
    tpc = "resolved" =>
        LET base == Lower(PathName(tool0))
        IN /\ base \in DOMAIN overrides => tool_env = overrides[base]
           /\ base \notin DOMAIN overrides =>
                /\ Contains(base, STR_zipinfo) => tool_env = ZIPINFO_BIN
                /\ (~Contains(base, STR_zipinfo) /\ Contains(base, STR_unzip))
                        => tool_env = UNZIP_BIN
                /\ (~Contains(base, STR_zipinfo) /\ ~Contains(base, STR_unzip)
                        /\ Contains(base, STR_zip)) => tool_env = ZIP_BIN
                /\ ~Contains(base, STR_zip) => tool_env = TOOL_BIN
           /\ tool_env_for(Upper(PathName(tool0)), overrides) = tool_env
           /\ tool_env_for(base, overrides) = tool_env
           /\ PathName(tool0) # <<>> =>
                \A d \in ToolDirs :
                    tool_env_for(d \o PathName(tool0), overrides) = tool_env

\* an upper-case name under a directory that itself contains "zipinfo" and
\* that holds "unzip" and "zip" but not "zipinfo", with a table that has
\* entries, none of them for this name
C8_Witness ==
    /\ tpc = "resolved"
    /\ overrides # NoOverrides
    /\ Lower(PathName(tool0)) \notin DOMAIN overrides
    /\ PathName(tool0) # tool0
    /\ Contains(tool0, STR_zipinfo)
    /\ PathName(tool0) # Lower(PathName(tool0))
    /\ tool_env = UNZIP_BIN

(***************************************************************************)
(* C3: the UTF-8 encoding of the text returned by clamp_utf8_bytes is at   *)
(* most max_bytes bytes long.                                              *)
(***************************************************************************)
C3_ClampWithinBudget ==
    cpc # "start" => Len(Utf8Encode(clamped[1])) <= max_bytes

(***************************************************************************)
(* C10: clamping is idempotent: clamping the clamped text again with the   *)
(* same budget returns the same text, and so the same digest.              *)
(***************************************************************************)
C10_ClampIdempotent ==
    cpc = "reclamped" =>
        /\ reclamped[1] = clamped[1]
        /\ sha256_hex_utf8(reclamped[1]) = sha256_hex_utf8(clamped[1])

\* a text that was cut inside a multi-byte character and clamped twice
C10_Witness ==
    /\ cpc = "reclamped"
    /\ clamped[2] = 1
    /\ clamped[1] # <<>>
    /\ clamped[1][Len(clamped[1])] = REPLACEMENT_CHAR
    /\ Len(Utf8Encode(clamped[1])) > max_bytes
(***************************************************************************)
(* Vocabulary of the properties of the table and of the names              *)
(***************************************************************************)
\* a command element extract_tests makes a TestCase of: an object whose
\* argv is a non-empty list of strings and whose returncode is an int
AcceptedCommand(cmd) ==
    /\ cmd.t = "dict"
    /\ cmd.argv.t = "list"
    /\ cmd.argv.items # <<>>
    /\ \A k \in 1..Len(cmd.argv.items) : cmd.argv.items[k].t = "str"
    /\ cmd.returncode.t \in {"int", "bool"}

\* origin a comes before origin b: earlier file, or earlier line of the
\* same file, or smaller command index in the same record
OriginBefore(a, b) ==
    \/ a.file < b.file
    \/ a.file = b.file /\ a.lineno < b.lineno
    \/ a.file = b.file /\ a.lineno = b.lineno /\ a.index < b.index

\* the table as the finished output file holds it
WrittenRows == out_file.content[3].rows

Built == pieces # <<>>

Succeeded == pc = "exit" /\ exit_code = 0

\* the run ended with an exception raised while the inputs were parsed
Aborted == pc = "exit" /\ err.kind \in {"ValueError", "RecursionError"}

(***************************************************************************)
(* C11: the artifact is a function of the ordered inputs and the flags     *)
(* only: the TestCases are those of the accepted commands in input order   *)
(* under the flags, pool, table and planned writes are what emit_c makes   *)
(* of them starting from an empty pool, and the finished file holds        *)
(* exactly that, whatever was at the output path before the run.           *)
(***************************************************************************)
C11_ArtifactFunctionOfInputs ==
    LET ov == parse_overrides(ns.tool_env).table
        label(o) == IF o.name.t = "str" /\ Strip(o.name.s) # <<>>
                    THEN o.name.s ELSE STR_unknown
        cases == [k \in 1..Len(origins) |->
                    make_test(origins[k].cmd, origins[k].index, label(origins[k]),
                              ns.name_prefix, ns.max_output_bytes, ov)]
        built == pack_tests(cases, 1, PoolOf(intern(NewPool, <<>>)), <<>>)
        artifact == emit_pieces(built.pool, built.packed, ns.require_exact,
                                ns.default_bin_dir)
    IN /\ tests = cases
       /\ Built => /\ pool = built.pool
                   /\ packed = built.packed
                   /\ pieces = artifact
       /\ Succeeded => out_file = [exists |-> TRUE, content |-> artifact]

\* a run that replaced an older file at the output path by an artifact of
\* two or more rows
C11_Witness ==
    /\ Succeeded
    /\ out_file0 = OldFile
    /\ Len(packed) >= 2
    /\ out_file.content = pieces

(***************************************************************************)
(* C12: the table has one row per accepted command and no other row, in    *)
(* the order input file, line, command index; each row carries the         *)
(* command's returncode and the two truncation flags of its TestCase.      *)
(***************************************************************************)
C12_TableRowsInInputOrder ==
    /\ Len(origins) = Len(tests)
    /\ \A k \in 1..Len(origins) : AcceptedCommand(origins[k].cmd)
    /\ \A j, k \in 1..Len(origins) : j < k => OriginBefore(origins[j], origins[k])
    /\ (RecordRead /\ ~Aborted) =>
            \A i \in 0..(Len(CurCommands) - 1) :
                Cardinality(CasesOf(i)) = IF AcceptedCommand(CurCommands[i + 1]) THEN 1 ELSE 0
    /\ Built =>
        /\ Len(packed) = Len(tests)
        /\ \A k \in 1..Len(packed) :
            /\ packed[k].rc = origins[k].cmd.returncode
            /\ packed[k].so_trunc = tests[k].stdout_truncated
            /\ packed[k].se_trunc = tests[k].stderr_truncated
    /\ Succeeded => WrittenRows = packed

\* a finished run whose table has rows from two input files, with different
\* returncodes, one of them from a record whose earlier elements were skipped
C12_Witness ==
    /\ Succeeded
    /\ Len(WrittenRows) >= 3
    /\ \E j, k \in 1..Len(packed) :
        /\ origins[j].file = 1 /\ origins[k].file = 2
        /\ packed[j].rc # packed[k].rc
        /\ origins[k].index = 2

(***************************************************************************)
(* C13 as stated: every name is <name-prefix><label>_cmd<i>, i the         *)
(* command's position in the commands list, label the record's name, or    *)
(* "unknown" when the name is missing, not a string or the empty string.   *)
(***************************************************************************)
NameOf(prefix, label, i) == prefix \o label \o <<95, 99, 109, 100>> \o Decimal(i)

C13_LabelUnknownOnlyIfEmpty ==
    \A k \in 1..Len(tests) :
        LET o == origins[k]
            label == IF o.name.t = "str" /\ o.name.s # <<>>
                     THEN o.name.s ELSE <<117, 110, 107, 110, 111, 119, 110>>
        IN tests[k].name = NameOf(ns.name_prefix, label, o.index)

(***************************************************************************)
(* C13 as amended: the label is "unknown" also when the name consists of   *)
(* whitespace only; a bad name never aborts the run, not even in strict    *)
(* mode, and every accepted command has a case of its own, whatever names  *)
(* other records have.                                                     *)
(***************************************************************************)
BadName(name) ==
    \/ name.t # "str"
    \/ \A k \in 1..Len(name.s) : name.s[k] \in {9, 10, 11, 12, 13, 28, 29, 30, 31, 32, 133, 160}

C13_NamesPrefixLabelIndex ==
    /\ \A k \in 1..Len(tests) :
        LET o == origins[k]
            label == IF BadName(o.name) THEN <<117, 110, 107, 110, 111, 119, 110>>
                     ELSE o.name.s
        IN tests[k].name = NameOf(ns.name_prefix, label, o.index)
    /\ (RecordRead /\ BadName(cur.line.name)
            /\ \A i \in 0..(Len(CurCommands) - 1) : AcceptedCommand(CurCommands[i + 1]))
        => /\ ~Aborted
           /\ \A i \in 0..(Len(CurCommands) - 1) : Cardinality(CasesOf(i)) = 1

\* a strict run with a name prefix finished with two cases of the same
\* name, both from records with a whitespace-only name
C13_Witness ==
    /\ Succeeded
    /\ ns.strict
    /\ ns.name_prefix # <<>>
    /\ \E j, k \in 1..Len(tests) :
        /\ j # k
        /\ tests[j].name = tests[k].name
        /\ origins[j].name.t = "str" /\ origins[j].name.s # <<>>
        /\ BadName(origins[j].name)

(***************************************************************************)
(* C14: in lenient mode no content of an input file aborts the run; lines  *)
(* that do not decode to an object, records whose commands are no list     *)
(* and invalid command elements are skipped, every valid command of a      *)
(* record is emitted, and the count reported at the end is the number of   *)
(* rows written.                                                           *)
(***************************************************************************)
C14_LenientNeverAborts ==
    ~ns.strict =>
        /\ LineRead => ~Aborted
        /\ RecordRead =>
            \A i \in 0..(Len(CurCommands) - 1) :
                Cardinality(CasesOf(i)) = IF AcceptedCommand(CurCommands[i + 1]) THEN 1 ELSE 0
        /\ (LineRead /\ ~RecordRead) => CasesOf(0) = {}
        /\ Succeeded => wrote = Len(WrittenRows)

(***************************************************************************)
(* C15: in strict mode a commands value that is present and no list, a     *)
(* command element that is no object, an argv that is absent, empty or     *)
(* holds a non-string, or a returncode that is no integer ends the run at  *)
(* that line, with an error naming the input path and the line number of   *)
(* the first such element; no line is read after it.                       *)
(***************************************************************************)
InvalidAt(i) == ~AcceptedCommand(CurCommands[i + 1])

MalformedRecord ==
    /\ LineRead
    /\ cur.line.t = "object"
    /\ \/ cur.line.commands.t \notin {"absent", "list"}
       \/ /\ cur.line.commands.t = "list"
          /\ \E i \in 0..(Len(CurCommands) - 1) : InvalidAt(i)

C15_StrictAbortsOnMalformedRecord ==
    (ns.strict /\ MalformedRecord) =>
        /\ pc = "exit"
        /\ exit_code # 0
        /\ err.kind = "ValueError"
        /\ err.path = cur.file
        /\ err.lineno = cur.lineno
        /\ cur.line.commands.t = "list" =>
              /\ InvalidAt(err.index)
              /\ \A i \in 0..(err.index - 1) : ~InvalidAt(i)
        /\ out_file = out_file0

\* a strict run stopped in the second input file, after a line of the
\* first, at a command whose argv is in order and whose returncode is no
\* integer
C15_Witness ==
    /\ ns.strict
    /\ MalformedRecord
    /\ pc = "exit"
    /\ cur.file = 2
    /\ nread = 2
    /\ err.path = 2
    /\ err.lineno = 1
    /\ cur.line.commands.t = "list"
    /\ CurCommands[err.index + 1].returncode.t \notin {"int", "bool"}
    /\ AcceptedCommand([CurCommands[err.index + 1]
                            EXCEPT !.returncode = [t |-> "int", s |-> <<>>, n |-> 0]])

(***************************************************************************)
(* C16: a run that ends with a configuration error, a missing input or an  *)
(* error raised while the inputs are parsed has a non-zero exit status     *)
(* and leaves the output path as it was; the output file is touched only   *)
(* when every input file has been read to its end.                         *)
(***************************************************************************)
C16_NoArtifactOnError ==
    /\ (pc = "exit" /\ err.kind \in {"usage", "ValueError", "RecursionError"}) =>
            /\ exit_code # 0
            /\ out_file = out_file0
            /\ ~Built
    /\ (out_file # out_file0 \/ Built) =>
            /\ fidx = Len(inputs)
            /\ err.kind \notin {"usage", "ValueError", "RecursionError"}

\* a strict run over two files, with an older file at the output path,
\* that failed in the second file after accepting a command from the first
C16_Witness ==
    /\ pc = "exit"
    /\ err.kind = "ValueError"
    /\ err.path = 2
    /\ Len(tests) > 0
    /\ out_file0 = OldFile
    /\ out_file = OldFile
    /\ exit_code = 1

(***************************************************************************)
(* C17: with a negative byte budget, a malformed override (no "=", or an   *)
(* empty key or value after trimming) or an input path that does not       *)
(* exist, no input file is ever opened, in lenient and in strict mode; in  *)
(* particular a missing last path stops the run before the first path is   *)
(* read.                                                                   *)
(***************************************************************************)
MalformedOverride(item) ==
    \/ \A k \in 1..Len(item) : item[k] # 61
    \/ LET eq == CHOOSE k \in 1..Len(item) :
                    item[k] = 61 /\ \A j \in 1..(k - 1) : item[j] # 61
       IN \/ \A j \in 1..(eq - 1) : item[j] \in {9, 10, 13, 32}
          \/ \A j \in (eq + 1)..Len(item) : item[j] \in {9, 10, 13, 32}

BadConfiguration ==
    \/ ns.max_output_bytes < 0
    \/ \E k \in 1..Len(ns.tool_env) : MalformedOverride(ns.tool_env[k])
    \/ \E k \in 1..Len(inputs) : ~inputs[k].exists

C17_ConfigurationCheckedFirst ==
    BadConfiguration =>
        /\ pc \in {"main", "exit"}
        /\ fidx = 0
        /\ nread = 0
        /\ cur = NoLine
        /\ pc = "exit" => exit_code # 0

\* a run ended on a missing second path with the first path never opened;
\* budget and overrides were in order
C17_Witness ==
    /\ pc = "exit"
    /\ exit_code = 2
    /\ ns.max_output_bytes >= 0
    /\ \A k \in 1..Len(ns.tool_env) : ~MalformedOverride(ns.tool_env[k])
    /\ Len(inputs) >= 2
    /\ inputs[1].exists
    /\ ~inputs[2].exists
    /\ fidx = 0
    /\ err.path = 2

(***************************************************************************)
(* The generated C program (the text emit_c writes, source lines 344-486). *)
(* C strings are byte sequences without the terminating NUL; CNull is a    *)
(* null pointer.                                                           *)
(***************************************************************************)
\* the adjacent string literals of an initializer, one per line, without
\* their quotes
adjacent_literals(lit) ==
    LET nl == {k \in 1..Len(lit) : lit[k] = NEWLINE}
        cut(j) == IF j = 0 THEN 0
                  ELSE IF j > Cardinality(nl) THEN Len(lit) + 1
                  ELSE CHOOSE q \in nl : Cardinality({r \in nl : r < q}) = j - 1
    IN [j \in 1..(Cardinality(nl) + 1) |-> SubSeq(lit, cut(j - 1) + 2, cut(j) - 2)]

\* the bytes a C compiler makes of the inside of one string literal, or
\* Malformed.  A backslash opens an escape iff an even number of
\* backslashes stands right before it; an octal escape takes up to three
\* digits; every other character stands for itself.
c_unescape(inner) ==
    LET n == Len(inner)
        run_before(k) ==
            LET stops == {j \in 1..(k - 1) : inner[j] # BACKSLASH}
            IN IF stops = {} THEN k - 1
               ELSE k - 1 - (CHOOSE m \in stops : \A j \in stops : j <= m)
        opens == {k \in 1..n : inner[k] = BACKSLASH /\ run_before(k) % 2 = 0}
        octal(k) == k <= n /\ IsOctalDigit(inner[k])
        width(k) == IF ~octal(k + 1) THEN 2
                    ELSE IF ~octal(k + 2) THEN 2
                    ELSE IF ~octal(k + 3) THEN 3
                    ELSE 4
        starts == {k \in 1..n :
                    \A e \in opens : ~(e < k /\ k < e + width(e))}
        place == [k \in 1..n |-> Cardinality({q \in starts : q <= k})]
        value(k) ==
            IF inner[k] # BACKSLASH THEN inner[k]
            ELSE IF octal(k + 1) THEN
                IF width(k) = 4
                THEN (inner[k + 1] - 48) * 64 + (inner[k + 2] - 48) * 8 + (inner[k + 3] - 48)
                ELSE IF width(k) = 3
                THEN (inner[k + 1] - 48) * 8 + (inner[k + 2] - 48)
                ELSE inner[k + 1] - 48
            ELSE IF inner[k + 1] = 110 THEN 10
            ELSE IF inner[k + 1] = 114 THEN 13
            ELSE IF inner[k + 1] = 116 THEN 9
            ELSE inner[k + 1]
        broken ==
            \/ \E k \in starts : inner[k] = QUOTE
            \/ \E k \in opens : k = n \/ ~(octal(k + 1) \/ inner[k + 1] \in {92, 34, 110, 114, 116})
    IN IF broken THEN Malformed
       ELSE [j \in 1..Cardinality(starts) |->
                value(CHOOSE k \in starts : place[k] = j)]

\* the array an initializer of adjacent literals defines: every literal is
\* unescaped, the results are concatenated and a NUL is appended
compiled_literal(lit) ==
    LET parts == adjacent_literals(lit)
    IN Flatten([k \in 1..Len(parts) |-> c_unescape(parts[k])]) \o <<0>>

\* test_strpool[0] of an initializer: the first character of the first
\* literal, or the escape sequence it opens, or the terminating NUL of ""
first_pool_byte(lit) ==
    LET inner == adjacent_literals(lit)[1]
        n == IF inner[1] # BACKSLASH THEN 1
             ELSE IF Len(inner) >= 2 /\ IsOctalDigit(inner[2]) THEN 4
             ELSE 2
    IN IF inner = <<>> THEN 0 ELSE c_unescape(Take(inner, n))[1]

\* pool_ptr(off): the C string that starts at test_strpool + off
RECURSIVE c_string_at(_, _)
c_string_at(bytes, k) ==
    IF k > Len(bytes) \/ bytes[k] = 0 THEN <<>>
    ELSE <<bytes[k]>> \o c_string_at(bytes, k + 1)

pool_ptr(off) == c_string_at(test_strpool, off + 1)

\* character k (from 1) of a C string, the terminating NUL included
CharAt(str, k) == IF k <= Len(str) THEN str[k] ELSE 0

\* strcmp(a, b) == 0
strcmp_eq(a, b) ==
    \A k \in 1..(Len(a) + 1) : CharAt(a, k) = CharAt(b, k)

\* strncmp(a, b, n) == 0: the first n characters agree, or all characters
\* up to a NUL that comes earlier
strncmp_eq(a, b, n) ==
    \A k \in 1..n :
        (\A j \in 1..(k - 1) : CharAt(a, j) # 0) => CharAt(a, k) = CharAt(b, k)

\* the static tables guess_fallback_bin and build_cmd read
guess_fallback_bin(env_name) ==
    IF env_name = UNZIP_BIN THEN STR_unzip
    ELSE IF env_name = ZIPINFO_BIN THEN STR_zipinfo
    ELSE IF env_name = ZIP_BIN THEN STR_zip
    ELSE <<116, 111, 111, 108>>

\* snprintf(dst, dstsz, ...): the formatted text is cut to dstsz - 1 bytes
snprintf(dstsz, text) == Take(text, dstsz - 1)

build_cmd(dstsz, bin, args) ==
    IF args = CNull \/ args = <<>> THEN snprintf(dstsz, bin)
    ELSE snprintf(dstsz, bin \o <<32>> \o args)

\* char fallback[4096] and char cmd[8192] of the loop body
sizeof_fallback == 4096

sizeof_cmd == 8192

\* variant: in relaxed mode a prefix test and nothing else
match_output_prefix_only(got, expected, require_exact_match) ==
    LET e == IF expected = CNull THEN <<>> ELSE expected
        g == IF got = CNull THEN <<>> ELSE got
    IN IF require_exact_match THEN strcmp_eq(g, e)
       ELSE strncmp_eq(g, e, Len(e))

match_output(got, expected, require_exact_match) ==
    LET e == IF expected = CNull THEN <<>> ELSE expected
        g == IF got = CNull THEN <<>> ELSE got
    IN IF require_exact_match THEN strcmp_eq(g, e)
       ELSE IF e = <<>> THEN g = <<>>
       ELSE IF g = <<>> THEN FALSE
       ELSE strncmp_eq(g, e, Len(e))

\* variant: the exit code is reported and not counted
case_ok_ignores_rc(rc_equal, out_matches, err_matches) ==
    out_matches /\ err_matches

\* bool ok of the loop body, source lines 452-468
case_ok(rc_equal, out_matches, err_matches) ==
    rc_equal /\ out_matches /\ err_matches

(***************************************************************************)
(* SpecEscape: c_escape_bytes renders a byte string as one literal, and a  *)
(* C compiler reads the literal as the initializer of a byte array.        *)
(***************************************************************************)
\* the five bytes with a two-character escape, the ends of the printable
\* range and their neighbours, NUL and 0xFF, the digits 0, 7, 8, 9, the
\* letters a and n, the question mark
EscapeBytes == {92, 34, 10, 13, 9, 32, 126, 31, 127, 0, 255, 48, 55, 56, 57, 97, 110, 63}

InitEscape ==
    /\ IdleClamp
    /\ IdlePool
    /\ IdleTool
    /\ IdleRun
    /\ IdleRunner
    /\ esc_data \in SeqsUpTo(EscapeBytes, MaxEscapeLen)
    /\ literal = <<>>
    /\ compiled = <<>>
    /\ epc = "start"

Escape ==
    /\ epc = "start"
    /\ literal' = c_escape_bytes(esc_data)
    /\ epc' = "escaped"
    /\ UNCHANGED <<esc_data, compiled>>
    /\ UNCHANGED <<varsClamp, varsPool, varsTool, varsRun, varsRunner>>

Compile ==
    /\ epc = "escaped"
    /\ compiled' = compiled_literal(literal)
    /\ epc' = "compiled"
    /\ UNCHANGED <<esc_data, literal>>
    /\ UNCHANGED <<varsClamp, varsPool, varsTool, varsRun, varsRunner>>

NextEscape == Escape \/ Compile

SpecEscape == InitEscape /\ [][NextEscape]_vars

(***************************************************************************)
(* SpecRunner: the program generated by a successful lenient run over one  *)
(* input file is compiled and run once.  getenv, mkdtemp and run_command   *)
(* are the environment: what they return is chosen freely.                 *)
(***************************************************************************)
\* the records every command of which is accepted, with a returncode that
\* is an int proper: every row of the table has a record of its own kind
\* here, and a skipped command leaves no trace in the table
RunnerLines ==
    {l \in Lines :
        /\ l.t = "object"
        /\ l.commands.t = "list"
        /\ l.commands.items # <<>>
        /\ \A k \in 1..Len(l.commands.items) :
                /\ l.commands.items[k].t = "dict"
                /\ argv_ok(l.commands.items[k].argv)
                /\ l.commands.items[k].returncode.t = "int"}

RunnerCommandLines ==
    {a \in CommandLines :
        ~a.strict /\ a.max_output_bytes >= 0 /\ ~parse_overrides(a.tool_env).err}

\* extract_tests over the lines of one file, with the origin of every case
RECURSIVE ReadAll(_, _, _, _)
ReadAll(lines, k, a, acc) ==
    IF k > Len(lines) THEN acc
    ELSE LET r == extract_line(lines[k], 1, k, a.strict, a.name_prefix,
                               a.max_output_bytes, parse_overrides(a.tool_env).table)
         IN ReadAll(lines, k + 1, a,
                [tests |-> acc.tests \o r.tests,
                 origins |-> acc.origins \o
                    [j \in 1..Len(r.idx) |->
                        [file |-> 1, lineno |-> k, index |-> r.idx[j],
                         name |-> lines[k].name,
                         cmd |-> lines[k].commands.items[r.idx[j] + 1]]]])

InitRunner ==
    /\ ns \in RunnerCommandLines
    /\ \E lines \in SeqsUpTo(RunnerLines, MaxRunnerLines) \ {<<>>} :
        LET read == ReadAll(lines, 1, ns, [tests |-> <<>>, origins |-> <<>>])
        IN /\ tests = read.tests
           /\ origins = read.origins
           /\ LET built == pack_tests(tests, 1, PoolOf(intern(NewPool, <<>>)), <<>>)
              IN /\ pool = built.pool
                 /\ packed = built.packed
           /\ pieces = emit_pieces(pool, packed, ns.require_exact, ns.default_bin_dir)
           /\ out_file = [exists |-> TRUE, content |-> pieces]
           /\ test_strpool = compiled_literal(pieces[2].text)
           /\ lineno = Len(lines)
           /\ nread = Len(lines)
           /\ cur = [file |-> 1, lineno |-> Len(lines), line |-> lines[Len(lines)]]
    /\ inputs = <<[exists |-> TRUE]>>
    /\ pc = "exit"
    /\ fidx = 1
    /\ env_overrides = parse_overrides(ns.tool_env).table
    /\ out_file0 = NoFile
    /\ exit_code = 0
    /\ err = NoError
    /\ wrote = Len(tests)
    /\ fixture_root = "none"
    /\ case_i = 0
    /\ passed = 0
    /\ failed = 0
    /\ getenv_ret = CNull
    /\ bin_path = CNull
    /\ cmd_line = <<>>
    /\ got_out = CNull
    /\ got_err = CNull
    /\ got_rc = 0
    /\ ok = TRUE
    /\ out_match = TRUE
    /\ err_match = TRUE
    /\ calls = <<>>
    /\ rpc = "main"
    /\ runner_exit = -1
    /\ IdleClamp
    /\ IdlePool
    /\ IdleTool
    /\ IdleEscape

\* static TestCase tests[], const bool require_exact_match and
\* default_bin_dir as the artifact defines them
runner_tests == out_file.content[3].rows

require_exact_match == out_file.content[4].flag

default_bin_dir == c_unescape(adjacent_literals(out_file.content[4].text)[1])

\* a path of 8185 bytes: with the five bytes of the args 'a b' and a space
\* it fills cmd to the last byte
LongBin == [k \in 1..(sizeof_cmd - 7) |-> IF k % 2 = 1 THEN 47 ELSE 120]

\* what getenv(tool_env) may return: NULL, "", "/opt/zu" or the long path
EnvValues == {CNull, <<>>, <<47, 111, 112, 116, 47, 122, 117>>, LongBin}

\* what run_command may store in *out and *err for an expected text
Outputs(expected) ==
    {CNull, <<>>, expected, expected \o <<33>>, <<33>> \o expected,
     Take(expected, Len(expected) - 1)}

ErrOutputs(expected) == {<<>>, expected, expected \o <<33>>}

\* the bytes the traced tool wrote to a stream, as the record has them
RecordedOutput(v) == c_string_at(Utf8Encode(TextOr(v)), 1)

\* main, source lines 409-419: mkdtemp makes the fixture root
RunnerMkdtemp ==
    /\ rpc = "main"
    /\ fixture_root' = "made"
    /\ rpc' = "loop"
    /\ UNCHANGED <<test_strpool, case_i, passed, failed, getenv_ret, bin_path, cmd_line,
                   got_out, got_err, got_rc, ok, out_match, err_match, calls,
                   runner_exit>>
    /\ UNCHANGED <<varsClamp, varsPool, varsTool, varsRun, varsEscape>>

\* mkdtemp returns NULL: perror and return 1
RunnerMkdtempFails ==
    /\ rpc = "main"
    /\ rpc' = "done"
    /\ runner_exit' = 1
    /\ UNCHANGED <<test_strpool, fixture_root, case_i, passed, failed, getenv_ret,
                   bin_path, cmd_line, got_out, got_err, got_rc, ok, out_match, err_match,
                   calls>>
    /\ UNCHANGED <<varsClamp, varsPool, varsTool, varsRun, varsEscape>>

\* loop body, source lines 421-434: the row's strings, then create_fixture
RunnerCreateFixture ==
    /\ rpc = "loop"
    /\ case_i < Len(runner_tests)
    /\ calls' = Append(calls, <<"create_fixture", case_i>>)
    /\ rpc' = "run"
    /\ UNCHANGED <<test_strpool, fixture_root, case_i, passed, failed, getenv_ret,
                   bin_path, cmd_line, got_out, got_err, got_rc, ok, out_match, err_match,
                   runner_exit>>
    /\ UNCHANGED <<varsClamp, varsPool, varsTool, varsRun, varsEscape>>

\* loop body, source lines 436-450: the binary, the command line, run_command
RunnerRunCommand ==
    /\ rpc = "run"
    /\ LET row == runner_tests[case_i + 1]
           env_name == pool_ptr(row.tool_off)
           args == pool_ptr(row.args_off)
       IN \E env_value \in EnvValues :
            LET bin == IF env_value = CNull \/ env_value = <<>>
                       THEN snprintf(sizeof_fallback,
                                default_bin_dir \o <<47>> \o guess_fallback_bin(env_name))
                       ELSE env_value
            IN /\ getenv_ret' = env_value
               /\ bin_path' = bin
               /\ cmd_line' = build_cmd(sizeof_cmd, bin, args)
               /\ got_rc' \in {row.rc.n, row.rc.n + 1}
               /\ got_out' \in Outputs(pool_ptr(row.so_off))
                        \cup {RecordedOutput(origins[case_i + 1].cmd.stdout)}
               /\ got_err' \in ErrOutputs(pool_ptr(row.se_off))
                        \cup {RecordedOutput(origins[case_i + 1].cmd.stderr)}
    /\ calls' = Append(calls, <<"run_command", case_i>>)
    /\ rpc' = "compare"
    /\ UNCHANGED <<test_strpool, fixture_root, case_i, passed, failed, ok,
                   out_match, err_match, runner_exit>>
    /\ UNCHANGED <<varsClamp, varsPool, varsTool, varsRun, varsEscape>>

\* loop body, source lines 452-468: the three comparisons
RunnerCompare ==
    /\ rpc = "compare"
    /\ LET row == runner_tests[case_i + 1]
           m_out == match_output(got_out, pool_ptr(row.so_off), require_exact_match)
           m_err == match_output(got_err, pool_ptr(row.se_off), require_exact_match)
       IN /\ out_match' = m_out
          /\ err_match' = m_err
          /\ ok' = case_ok(got_rc = row.rc.n, m_out, m_err)
    /\ rpc' = "cleanup"
    /\ UNCHANGED <<test_strpool, fixture_root, case_i, passed, failed, getenv_ret,
                   bin_path, cmd_line, got_out, got_err, got_rc, calls, runner_exit>>
    /\ UNCHANGED <<varsClamp, varsPool, varsTool, varsRun, varsEscape>>

\* variant: a failed case keeps its fixture for inspection
RunnerCleanup_keeps_failed ==
    /\ rpc = "cleanup"
    /\ calls' = IF ok THEN Append(calls, <<"cleanup_fixture", case_i>>) ELSE calls
    /\ IF ok
       THEN passed' = passed + 1 /\ UNCHANGED failed
       ELSE failed' = failed + 1 /\ UNCHANGED passed
    /\ case_i' = case_i + 1
    /\ getenv_ret' = CNull
    /\ bin_path' = CNull
    /\ cmd_line' = <<>>
    /\ got_out' = CNull
    /\ got_err' = CNull
    /\ got_rc' = 0
    /\ rpc' = "loop"
    /\ UNCHANGED <<test_strpool, fixture_root, ok, out_match, err_match, runner_exit>>
    /\ UNCHANGED <<varsClamp, varsPool, varsTool, varsRun, varsEscape>>

\* loop body, source lines 470-481: free, cleanup_fixture, count, ++i; the
\* locals of the body go out of scope
RunnerCleanup ==
    /\ rpc = "cleanup"
    /\ calls' = Append(calls, <<"cleanup_fixture", case_i>>)
    /\ IF ok
       THEN passed' = passed + 1 /\ UNCHANGED failed
       ELSE failed' = failed + 1 /\ UNCHANGED passed
    /\ case_i' = case_i + 1
    /\ getenv_ret' = CNull
    /\ bin_path' = CNull
    /\ cmd_line' = <<>>
    /\ got_out' = CNull
    /\ got_err' = CNull
    /\ got_rc' = 0
    /\ rpc' = "loop"
    /\ UNCHANGED <<test_strpool, fixture_root, ok, out_match, err_match, runner_exit>>
    /\ UNCHANGED <<varsClamp, varsPool, varsTool, varsRun, varsEscape>>

\* main, source lines 483-485: rmdir, the summary, the exit status
RunnerFinish ==
    /\ rpc = "loop"
    /\ case_i >= Len(runner_tests)
    /\ fixture_root' = "removed"
    /\ runner_exit' = IF failed > 0 THEN 1 ELSE 0
    /\ rpc' = "done"
    /\ UNCHANGED <<test_strpool, case_i, passed, failed, getenv_ret, bin_path, cmd_line,
                   got_out, got_err, got_rc, ok, out_match, err_match, calls>>
    /\ UNCHANGED <<varsClamp, varsPool, varsTool, varsRun, varsEscape>>

NextRunner ==
    \/ RunnerMkdtemp
    \/ RunnerMkdtempFails
    \/ RunnerCreateFixture
    \/ RunnerRunCommand
    \/ RunnerCompare
    \/ RunnerCleanup
    \/ RunnerFinish

SpecRunner == InitRunner /\ [][NextRunner]_vars

(***************************************************************************)
(* Vocabulary of the properties of the generated program                   *)
(***************************************************************************)
\* the comparison the two modes stand for
Accepts(exact, actual, expected) ==
    IF exact THEN actual = expected
    ELSE IF expected = <<>> THEN actual = <<>>
    ELSE /\ actual # <<>>
         /\ Len(actual) >= Len(expected)
         /\ SubSeq(actual, 1, Len(expected)) = expected

\* what a stream delivered: a null pointer stands for no output
ActualText(ptr) == IF ptr = CNull THEN <<>> ELSE ptr

\* the TestCase the row in work was made from
CaseInWork == tests[case_i + 1]

LoopCompleted == rpc = "done" /\ fixture_root = "removed"

\* the expected text of a stream as the program has it: the C string that
\* starts at the row's offset in the pool as written, which is the text of
\* the TestCase up to its first NUL
ExpectedText(text) == c_string_at(Utf8Encode(text) \o <<0>>, 1)

\* the verdict on the row in work is: exit code equal to expected_rc, and
\* stdout and stderr accepted by the comparison --require-exact selected
VerdictByRcAndStreams ==
    rpc = "cleanup" =>
        (ok <=> /\ got_rc = CaseInWork.expected_rc.n
                /\ Accepts(ns.require_exact, ActualText(got_out),
                           ExpectedText(CaseInWork.expected_stdout))
                /\ Accepts(ns.require_exact, ActualText(got_err),
                           ExpectedText(CaseInWork.expected_stderr)))

\* a step that counts a case counts it as passed iff its verdict is ok
CountsByVerdict ==
    (passed' # passed \/ failed' # failed) =>
        /\ rpc = "cleanup"
        /\ passed' = passed + (IF ok THEN 1 ELSE 0)
        /\ failed' = failed + (IF ok THEN 0 ELSE 1)

(***************************************************************************)
(* C18 as stated: a case passes iff exit code and both streams are as      *)
(* expected; whenever the program has finished, passed + failed is the     *)
(* number of rows and the exit status is non-zero iff a case failed.       *)
(***************************************************************************)
C18_FinishedRunnerCountedEveryRow ==
    /\ VerdictByRcAndStreams
    /\ rpc = "done" =>
        /\ passed + failed = Len(runner_tests)
        /\ runner_exit = IF failed > 0 THEN 1 ELSE 0

(***************************************************************************)
(* C18 as amended: a case passes iff exit code and both streams are as     *)
(* expected, digests and truncation flags playing no part; when the loop   *)
(* has run to its end, passed + failed is the number of rows and the exit  *)
(* status is 1 if a case failed and 0 otherwise; when mkdtemp fails the    *)
(* program ends with status 1 and has run and counted no case.             *)
(***************************************************************************)
C18_VerdictAndCounts ==
    /\ [](/\ VerdictByRcAndStreams
          /\ rpc \in {"main", "loop"} => passed + failed = case_i
          /\ LoopCompleted =>
                /\ passed + failed = Len(runner_tests)
                /\ runner_exit = IF failed > 0 THEN 1 ELSE 0
          /\ (rpc = "done" /\ ~LoopCompleted) =>
                /\ runner_exit = 1
                /\ passed + failed = 0
                /\ calls = <<>>)
    /\ [][CountsByVerdict]_vars

\* the loop ran to its end over a table with a truncated expected stdout;
\* one case passed, one failed, the exit status is 1
C18_Witness ==
    /\ LoopCompleted
    /\ passed >= 1
    /\ failed >= 1
    /\ runner_exit = 1
    /\ \E k \in 1..Len(runner_tests) : runner_tests[k].so_trunc = 1

(***************************************************************************)
(* C19: match_output accepts, in exact mode, iff actual and expected are   *)
(* equal byte for byte; in relaxed mode an empty expected value accepts    *)
(* the empty actual output only, and a non-empty expected value accepts    *)
(* iff the actual output is non-empty and starts with it.  The mode is the *)
(* --require-exact of the generation, for every row and for both streams.  *)
(***************************************************************************)
C19_MatchOutputModes ==
    /\ require_exact_match = ns.require_exact
    /\ rpc = "cleanup" =>
        LET row == runner_tests[case_i + 1]
        IN /\ out_match = Accepts(ns.require_exact, ActualText(got_out),
                                  pool_ptr(row.so_off))
           /\ err_match = Accepts(ns.require_exact, ActualText(got_err),
                                  pool_ptr(row.se_off))

\* relaxed mode on the second row: stdout longer than the non-empty
\* expected text is accepted, stderr "!" against an empty expected text is
\* rejected
C19_Witness ==
    /\ rpc = "cleanup"
    /\ case_i = 1
    /\ ~ns.require_exact
    /\ pool_ptr(runner_tests[case_i + 1].so_off) # <<>>
    /\ got_out # pool_ptr(runner_tests[case_i + 1].so_off)
    /\ out_match
    /\ pool_ptr(runner_tests[case_i + 1].se_off) = <<>>
    /\ got_err = <<33>>
    /\ ~err_match

(***************************************************************************)
(* C20: the rows are processed one at a time in table order; each row gets *)
(* create_fixture, run_command and cleanup_fixture once, in this order,    *)
(* and the cleanup of a row precedes create_fixture of the next row, also  *)
(* when the row failed.                                                    *)
(***************************************************************************)
RowCalls(k) ==
    <<<<"create_fixture", k>>, <<"run_command", k>>, <<"cleanup_fixture", k>>>>

C20_FixturePerRowInOrder ==
    /\ case_i <= Len(runner_tests)
    /\ calls = Flatten([k \in 1..case_i |-> RowCalls(k - 1)])
               \o (IF rpc = "run" THEN SubSeq(RowCalls(case_i), 1, 1)
                   ELSE IF rpc \in {"compare", "cleanup"} THEN SubSeq(RowCalls(case_i), 1, 2)
                   ELSE <<>>)
    /\ LoopCompleted => case_i = Len(runner_tests)

\* the first row failed and was cleaned up, the second row has its fixture
C20_Witness ==
    /\ rpc = "run"
    /\ case_i = 1
    /\ failed = 1
    /\ calls = RowCalls(0) \o <<<<"create_fixture", 1>>>>

(***************************************************************************)
(* C21: the command line a row is run with is <bin> when the row's args    *)
(* are empty and <bin><space><args> otherwise, bin being the value of the  *)
(* row's environment variable when it is set and not empty and             *)
(* <default_bin_dir>/<leaf> otherwise, leaf = unzip, zipinfo, zip for      *)
(* UNZIP_BIN, ZIPINFO_BIN, ZIP_BIN and "tool" for every other name;        *)
(* whatever the lengths of bin and args.                                   *)
(***************************************************************************)
LeafOf(env_name) ==
    IF env_name = <<85, 78, 90, 73, 80, 95, 66, 73, 78>> THEN <<117, 110, 122, 105, 112>>
    ELSE IF env_name = <<90, 73, 80, 73, 78, 70, 79, 95, 66, 73, 78>>
        THEN <<122, 105, 112, 105, 110, 102, 111>>
    ELSE IF env_name = <<90, 73, 80, 95, 66, 73, 78>> THEN <<122, 105, 112>>
    ELSE <<116, 111, 111, 108>>

C21_CommandLineIsBinAndArgs ==
    rpc = "compare" =>
        LET row == runner_tests[case_i + 1]
            args == pool_ptr(row.args_off)
            bin == IF getenv_ret # CNull /\ getenv_ret # <<>> THEN getenv_ret
                   ELSE ns.default_bin_dir \o <<47>> \o LeafOf(pool_ptr(row.tool_off))
        IN cmd_line = IF args = <<>> THEN bin ELSE bin \o <<32>> \o args

(***************************************************************************)
(* C22: after any sequence of intern calls every pair (offset, length)     *)
(* returned so far lies inside the buffer, offset + length < size, covers  *)
(* the encoded string and is followed by a NUL byte; an intern call only   *)
(* appends to the buffer and leaves every earlier entry where it was.      *)
(***************************************************************************)
\* the pair (off, len) addresses the bytes b, NUL-terminated, in the buffer
AddressesIn(buffer, meta, b) ==
    /\ meta[1] >= 0
    /\ meta[2] = Len(b)
    /\ meta[1] + meta[2] < Len(buffer)
    /\ SubSeq(buffer, meta[1] + 1, meta[1] + meta[2]) = b
    /\ buffer[meta[1] + meta[2] + 1] = 0

EveryPairValid ==
    /\ \A b \in DOMAIN index : AddressesIn(buf, index[b], b)
    /\ ncalls > 0 => AddressesIn(buf, ret, Utf8Encode(arg))

InternOnlyAppends ==
    /\ Len(buf') >= Len(buf)
    /\ SubSeq(buf', 1, Len(buf)) = buf
    /\ \A b \in DOMAIN index : b \in DOMAIN index' /\ index'[b] = index[b]
    /\ ncalls' = ncalls + 1 => ret' = index'[Utf8Encode(arg')]

C22_PairsStayValid ==
    /\ [](ppc \in {"interning", "emitted"} => EveryPairValid)
    /\ [][InternOnlyAppends]_vars

\* three strings were interned after ""; the first of them, two bytes
\* long, still has its place in the middle of the buffer
C22_Witness ==
    /\ ppc = "interning"
    /\ Cardinality(DOMAIN index) = 4
    /\ \E b \in DOMAIN index :
            /\ Len(b) = 2
            /\ index[b] = <<1, 2>>
            /\ Len(buf) > 6
            /\ AddressesIn(buf, index[b], b)

(***************************************************************************)
(* C23: in every artifact, also one with no test case, the first byte of   *)
(* the pool is NUL and the empty string has the pair (0, 0); a table field *)
(* whose text is empty (the args of a one-element argv, an empty stdout or *)
(* stderr) has offset 0 and length 0, and no other field has.              *)
(***************************************************************************)
\* the offset/length pairs of row k for name, tool_env, args, stdout, stderr
FieldPairs(row) ==
    <<<<row.name_off, row.name_len>>, <<row.tool_off, row.tool_len>>,
      <<row.args_off, row.args_len>>, <<row.so_off, row.so_len>>,
      <<row.se_off, row.se_len>>>>

FieldTexts(test) ==
    <<test.name, test.tool_env, test.args, test.expected_stdout, test.expected_stderr>>

EmptyFieldsAtZero(rows) ==
    /\ Len(rows) = Len(tests)
    /\ \A k \in 1..Len(rows) : \A f \in 1..5 :
            FieldTexts(tests[k])[f] = <<>> <=> FieldPairs(rows[k])[f] = <<0, 0>>

C23_EmptyStringAtOffsetZero ==
    /\ Built =>
            /\ pool.buf # <<>>
            /\ pool.buf[1] = 0
            /\ <<>> \in DOMAIN pool.index
            /\ pool.index[<<>>] = <<0, 0>>
            /\ EmptyFieldsAtZero(packed)
    /\ Succeeded =>
            /\ first_pool_byte(out_file.content[2].text) = 0
            /\ EmptyFieldsAtZero(WrittenRows)

\* a finished artifact with a row whose args (argv of one element), stdout
\* and stderr are all empty, after a row whose name, tool_env, args and
\* stdout are not
C23_Witness ==
    /\ Succeeded
    /\ \E j, k \in 1..Len(WrittenRows) :
            /\ j < k
            /\ \A f \in 1..4 : FieldPairs(WrittenRows[j])[f][1] > 0
            /\ Len(origins[k].cmd.argv.items) = 1
            /\ \A f \in 3..5 : FieldPairs(WrittenRows[k])[f] = <<0, 0>>

(***************************************************************************)
(* C24: for every byte string the single literal c_escape_bytes makes is   *)
(* a quoted text of printable ASCII characters, and reading it back by the *)
(* rules of C (the escapes of backslash, quote, n, r, t and octal escapes   *)
(* of at most three digits) gives the original bytes exactly, also when a  *)
(* byte written as an octal escape is followed by a digit.                 *)
(***************************************************************************)
PrintableAscii(c) == c >= 32 /\ c <= 126

C24_EscapeInvertible ==
    /\ epc \in {"escaped", "compiled"} =>
            /\ Len(literal) >= 2
            /\ literal[1] = 34 /\ literal[Len(literal)] = 34
            /\ \A k \in 1..Len(literal) : PrintableAscii(literal[k])
            /\ \A k \in 2..(Len(literal) - 1) :
                    literal[k] = 34 => literal[k - 1] = 92
    /\ epc = "compiled" => compiled = esc_data \o <<0>>

\* a byte that needs an octal escape, followed by the digit 7, was written
\* and read back
C24_Witness ==
    /\ epc = "compiled"
    /\ Len(esc_data) = 2
    /\ esc_data[1] \in {0, 31, 127, 255}
    /\ esc_data[2] = 55
    /\ Len(literal) = 7
    /\ compiled = esc_data \o <<0>>

(***************************************************************************)
(* C25: the args of every TestCase are the arguments after argv[0], each   *)
(* quoted for the shell, joined by single spaces (the empty string for an  *)
(* argv of one element), and do not depend on argv[0]; tool_env is never   *)
(* empty, also when an override supplies it.                               *)
(***************************************************************************)
\* a character the shell takes literally: a letter, a digit or one of
\* _ @ % + = : , . / -
ShellPlain(c) ==
    c \in (48..57) \cup (65..90) \cup (97..122) \cup {95, 64, 37, 43, 61, 58, 44, 46, 47, 45}

\* the word as the shell must be given it: itself when plain, else in
\* single quotes, every single quote inside written as '"'"'
ShellWord(a) ==
    IF a # <<>> /\ \A i \in 1..Len(a) : ShellPlain(a[i]) THEN a
    ELSE <<39>> \o Flatten([i \in 1..Len(a) |->
                        IF a[i] = 39 THEN <<39, 34, 39, 34, 39>> ELSE <<a[i]>>])
              \o <<39>>

ArgumentsJoined(items) ==
    Flatten([i \in 1..(Len(items) - 1) |->
                (IF i = 1 THEN <<>> ELSE <<32>>) \o ShellWord(items[i + 1].s)])

\* other program names: "", "unzip", "/x y/zip", "'"
OtherPrograms == {<<>>, <<117, 110, 122, 105, 112>>,
                  <<47, 120, 32, 121, 47, 122, 105, 112>>, <<39>>}

C25_ArgsAndToolEnv ==
    \A k \in 1..Len(tests) :
        LET items == origins[k].cmd.argv.items
            base == Lower(PathName(items[1].s))
        IN /\ tests[k].args = ArgumentsJoined(items)
           /\ Len(items) = 1 => tests[k].args = <<>>
           /\ \A other \in OtherPrograms :
                 argv_to_args([i \in 1..Len(items) |->
                                 IF i = 1 THEN other ELSE items[i].s]) = tests[k].args
           /\ tests[k].tool_env # <<>>
           /\ base \in DOMAIN env_overrides =>
                 /\ tests[k].tool_env = env_overrides[base]
                 /\ \E c \in 1..Len(tests[k].tool_env) : ~IsSpace(tests[k].tool_env[c])

\* a finished run with an override in force: one case has an empty and an
\* apostrophe argument and its tool_env from the override, another case
\* comes from an argv of one element
C25_Witness ==
    /\ Succeeded
    /\ env_overrides # NoOverrides
    /\ \E j, k \in 1..Len(tests) :
            /\ Len(origins[j].cmd.argv.items) = 3
            /\ origins[j].cmd.argv.items[2].s = <<>>
            /\ tests[j].args = <<39, 39, 32, 39, 105, 116, 39, 34, 39, 34, 39, 115, 39>>
            /\ tests[j].tool_env = <<77, 89, 95, 90, 73, 80>>
            /\ Len(origins[k].cmd.argv.items) = 1
            /\ tests[k].args = <<>>

(***************************************************************************)
(* C26: replay fidelity.  Whatever the byte budget of the generation, a    *)
(* run of the tool that ends with the recorded returncode and writes the   *)
(* recorded stdout and stderr is counted as passed by a runner in relaxed  *)
(* mode.                                                                   *)
(***************************************************************************)
\* run_command delivered for the row in work what the trace recorded
ReplayedAsRecorded ==
    LET cmd == origins[case_i + 1].cmd
    IN /\ got_rc = cmd.returncode.n
       /\ got_out = c_string_at(Utf8Encode(RawText(cmd.stdout)), 1)
       /\ got_err = c_string_at(Utf8Encode(RawText(cmd.stderr)), 1)

C26_ReplayPasses ==
    (rpc = "cleanup" /\ ~ns.require_exact /\ ReplayedAsRecorded) => ok

(***************************************************************************)
(* C27: for every row of the table and each of its seven text fields, the  *)
(* C string the runner reads at the field's offset (pool_ptr, up to the    *)
(* first NUL) has the recorded length, and is therefore the interned       *)
(* string.                                                                 *)
(***************************************************************************)
AllFieldPairs(row) ==
    FieldPairs(row) \o <<<<row.soh_off, row.soh_len>>, <<row.seh_off, row.seh_len>>>>

C27_PoolStringHasRecordedLength ==
    \A k \in 1..Len(packed) : \A f \in 1..7 :
        Len(pool_ptr(AllFieldPairs(packed[k])[f][1])) = AllFieldPairs(packed[k])[f][2]

(***************************************************************************)
(* C28 (as stated): the truncation flag of clamp_utf8_bytes is 1 exactly   *)
(* when the returned text differs from the input text.                     *)
(***************************************************************************)
C28_FlagIffTextDiffers ==
    cpc # "start" => (clamped[2] = 1 <=> clamped[1] # s)

(***************************************************************************)
(* C28 (amended): the truncation flag is 1 exactly when the UTF-8 bytes of *)
(* the input are longer than the budget, that is when bytes were cut; with *)
(* flag 0 the returned text is the input, and with flag 1 the returned     *)
(* text is the decoding of the first max_bytes bytes, which is never       *)
(* longer (in characters) than the input but can be equal to it.           *)
(***************************************************************************)
C28_FlagIffBytesCut ==
    cpc # "start" =>
        /\ clamped[2] \in {0, 1}
        /\ clamped[2] = 1 <=> Len(Utf8Encode(s)) > max_bytes
        /\ clamped[2] = 0 => clamped[1] = s
        /\ clamped[2] = 1 => Len(clamped[1]) <= Len(s)

\* bytes were cut, the flag is set, and the returned text is the input
C28_Witness ==
    /\ cpc = "clamped"
    /\ clamped[2] = 1
    /\ clamped[1] = s
    /\ s # <<>>

(***************************************************************************)
(* C29: a strict run that completes emits what the lenient run emits on    *)
(* the same inputs with the other flags equal.  Every line a strict run    *)
(* reads without aborting adds to the TestCase list exactly what a lenient *)
(* extract_tests adds for that line, without an exception; and the         *)
(* finished file of a strict run is what emit_c makes of that list, which  *)
(* does not depend on --strict.                                            *)
(***************************************************************************)
LenientLine ==
    extract_line(cur'.line, cur'.file, cur'.lineno, FALSE, ns.name_prefix,
                 ns.max_output_bytes, env_overrides)

StrictLineAsLenient ==
    (ns.strict /\ pc = "extract" /\ nread' = nread + 1 /\ pc' = "extract") =>
        /\ LenientLine.err.kind = "none"
        /\ tests' = tests \o LenientLine.tests

LenientArtifact ==
    LET built == pack_tests(tests, 1, PoolOf(intern(NewPool, <<>>)), <<>>)
    IN emit_pieces(built.pool, built.packed, ns.require_exact, ns.default_bin_dir)

C29_StrictEmitsAsLenient ==
    /\ [][StrictLineAsLenient]_vars
    /\ []((ns.strict /\ Succeeded) => out_file.content = LenientArtifact)

\* a strict run completed after reading two lines, with tests from both
C29_Witness ==
    /\ ns.strict
    /\ Succeeded
    /\ nread = 2
    /\ Len(tests) >= 3
    /\ \E k \in 1..Len(origins) : origins[k].cmd.stdout.t = "int"

(***************************************************************************)
(* C30: in the table as written, the initializer of every row's            *)
(* expected_rc is a decimal integer literal (digits with an optional       *)
(* minus sign) whose value is the recorded returncode, a JSON integer      *)
(* that fits the 32-bit int field.                                         *)
(***************************************************************************)
INT_MIN == -2147483647 - 1

INT_MAX == 2147483647

\* the text between ".expected_rc = " and the comma, for row k of the table
RcInitializer(text, k) ==
    LET line == LinesFrom(text, 1, <<>>)[k]
    IN SubSeq(line, Len(STR_expected_rc) + 1, Len(line) - 1)

IsDigits(q) == q # <<>> /\ \A i \in 1..Len(q) : q[i] \in 48..57

IsIntegerLiteral(q) ==
    IF q # <<>> /\ q[1] = 45 THEN IsDigits(Tail(q)) ELSE IsDigits(q)

RECURSIVE DigitsValue(_)
DigitsValue(q) ==
    IF q = <<>> THEN 0 ELSE 10 * DigitsValue(SubSeq(q, 1, Len(q) - 1)) + (q[Len(q)] - 48)

LiteralValue(q) == IF q[1] = 45 THEN -DigitsValue(Tail(q)) ELSE DigitsValue(q)

C30_ExpectedRcIsIntLiteral ==
    Built =>
        \A k \in 1..Len(packed) :
            LET lit == RcInitializer(pieces[3].text, k)
            IN /\ origins[k].cmd.returncode.t = "int"
               /\ IsIntegerLiteral(lit)
               /\ LiteralValue(lit) = origins[k].cmd.returncode.n
               /\ LiteralValue(lit) \in INT_MIN..INT_MAX

====
